---- MODULE Spec2Model ----
(***************************************************************************)
(* Model of the squad alerting core of scisquad:                           *)
(*   - SciSportsTeam.__post_init__            (model/entities.py)          *)
(*   - PlayerAlerts   (player level alerts)   (recommendations/alerts.py)  *)
(*   - PositionAlerts (position level alerts) (recommendations/alerts.py)  *)
(*                                                                         *)
(* Conventions.                                                            *)
(*   A datetime is a record [nat, ticks, year, month]: ticks are the hours *)
(*   since the start of proleptic ordinal day 0, year and month are the    *)
(*   calendar fields the code reads; nat marks a missing value (NaT/None). *)
(*   A timedelta is a number of hours.                                     *)
(*   A usage is a number of tenths of a percent (75.0 % is 750), which is  *)
(*   the resolution round(x, 1) leaves; NaN is the missing float.          *)
(*   The peak age limit is a number of hundredths of a year (28.0 is       *)
(*   2800), the age column holds the whole days of the timedelta and the   *)
(*   division by 365.25 is carried out in the comparison.                  *)
(***************************************************************************)
EXTENDS Integers, Sequences, FiniteSets, TLC

VARIABLES
    team,           \* the SciSportsTeam handed to the engines
    now,            \* datetime.now() as read by the last constructor
    cfg,            \* PlayerAlerts parameters of the current instance
    pa_state,       \* "none" | "ready" | "error" : PlayerAlerts instance
    pa_squad,       \* PlayerAlerts._squad
    pa_alerts,      \* PlayerAlerts.alerts
    pa_calls,       \* number of PlayerAlerts.set_alerts calls on the instance
    pa_run,         \* number of PlayerAlerts instances built on this team
    pa_results,     \* per instance, the alerts after its first set_alerts call
    po_state,       \* "none" | "ready" | "error" : PositionAlerts instance
    po_squad,       \* PositionAlerts._squad
    po_benchmarks,  \* PositionAlerts._benchmarks
    po_groups,      \* df_groups returned by the last set_alerts
    po_alerts,      \* PositionAlerts.alerts
    po_calls,       \* number of PositionAlerts.set_alerts calls
    co_labels,      \* the labels the Recruitment Center holds for the account
    co_shortlists,  \* the shortlists it holds
    co_next_id,     \* number of the next id it hands out
    co_call,        \* the last CollaborationAPI call: method and arguments
    co_sent,        \* the write requests that call sent, in order
    co_error,       \* the exception that call raised, NoError if it returned
    sp_input,       \* ScoutingPlanner: the scouting tasks and the nations of
                    \* inbound_market_shares it was created with
    sp_pc,          \* the step create_scouting_plan is about to take
    sp_task,        \* the number of the task it is working on
    sp_league_ids,  \* GuidedSearchAPI._current_league_ids
    sp_lists,       \* ScoutingPlanner.scouting_lists, as key and player ids
    sp_log          \* the steps taken so far, with what they used

vars == <<team, now, cfg, pa_state, pa_squad, pa_alerts, pa_calls, pa_run,
          pa_results, po_state, po_squad, po_benchmarks, po_groups, po_alerts,
          po_calls, co_labels, co_shortlists, co_next_id, co_call, co_sent,
          co_error, sp_input, sp_pc, sp_task, sp_league_ids, sp_lists,
          sp_log>>

pa_vars == <<cfg, pa_state, pa_squad, pa_alerts, pa_calls, pa_run, pa_results>>

po_vars == <<po_state, po_squad, po_benchmarks, po_groups, po_alerts, po_calls>>

co_vars == <<co_labels, co_shortlists, co_next_id, co_call, co_sent, co_error>>

sp_vars == <<sp_input, sp_pc, sp_task, sp_league_ids, sp_lists, sp_log>>

----------------------------------------------------------------------------
(* Bounds of the model *)

MaxSquad == 2

MaxMatches == 2

MaxCalls == 2

MaxRuns == 2

MaxPositionSquad == 3

----------------------------------------------------------------------------
(* Values *)

NaN == -1

NaT == [nat |-> TRUE, ticks |-> 0, year |-> 0, month |-> 0]

Date(t, y, m) == [nat |-> FALSE, ticks |-> t, year |-> y, month |-> m]

Weeks(w) == w * 7 * 24

Days(td) == td \div 24

\* datetime < datetime as pandas evaluates it: a missing side compares False
DateLt(a, b) == (~a.nat) /\ (~b.nat) /\ a.ticks < b.ticks

\* datetime <= (datetime + timedelta), the right side given in ticks
DateLeTicks(a, t) == (~a.nat) /\ a.ticks <= t

IsNaN(x) == x = NaN

\* float comparisons: NaN compares False
FloatGt(x, y) == (~IsNaN(x)) /\ (~IsNaN(y)) /\ x > y

FloatLe(x, y) == (~IsNaN(x)) /\ (~IsNaN(y)) /\ x <= y

\* round half to even of the quotient num / den (den > 0, num >= 0)
RoundHalfEven(num, den) ==
    LET q == num \div den
        r == num % den
    IN  IF 2 * r < den THEN q
        ELSE IF 2 * r > den THEN q + 1
        ELSE IF q % 2 = 0 THEN q ELSE q + 1

\* the sequence with every element evaluated once
AsSeq(f) == f \o <<>>

RECURSIVE SumSeq(_)
SumSeq(s) == IF s = <<>> THEN 0 ELSE Head(s) + SumSeq(Tail(s))

SelectIdx(s, Test(_)) ==
    LET F[i \in 0..Len(s)] ==
            IF i = 0 THEN <<>>
            ELSE IF Test(s[i]) THEN Append(F[i - 1], s[i]) ELSE F[i - 1]
    IN  F[Len(s)]

\* DataFrame.sort_values(key, ascending=False): descending, missing keys
\* last, rows with equal keys stay in their previous order
SortValuesDesc(s, Key(_)) ==
    LET n == Len(s)
        key == AsSeq([i \in 1..n |-> Key(s[i])])
        pos == AsSeq([i \in 1..n |->
                    1 + Cardinality({j \in 1..n :
                            \/ key[j] > key[i]
                            \/ (key[j] = key[i] /\ j < i)})])
    IN  AsSeq([r \in 1..n |-> s[CHOOSE i \in 1..n : pos[i] = r]])

----------------------------------------------------------------------------
(* model/entities.py : SciSportsTeam *)

SetMatchTeamPlayers(sheets) ==
    LET F[k \in 0..Len(sheets)] ==
            IF k = 0 THEN <<>>
            ELSE F[k - 1] \o
                 [i \in 1..Len(sheets[k].players) |->
                    [match_id |-> sheets[k].id,
                     player_id |-> sheets[k].players[i].player_id,
                     minutes_played |-> sheets[k].players[i].minutesPlayed]]
    IN  F[Len(sheets)]

MatchDuration(players) ==
    LET F[i \in 0..Len(players)] ==
            IF i = 0 THEN 0
            ELSE LET match_duration == F[i - 1]
                 IN  IF players[i].minutesPlayed > match_duration
                     THEN players[i].minutesPlayed ELSE match_duration
    IN  F[Len(players)]

SetMatchTeamAttributes(sheets) ==
    AsSeq([k \in 1..Len(sheets) |->
        [match_id |-> sheets[k].id,
         goals_scored |-> sheets[k].goals,
         goals_conceded |-> sheets[k].goals,
         match_duration |-> MatchDuration(sheets[k].players)]])

SciSportsTeam(team_id, squad, sheets, transfers) ==
    [team_id |-> team_id,
     squad |-> squad,
     match_sheets |-> sheets,
     transfers |-> transfers,
     match_team_players |-> SetMatchTeamPlayers(sheets),
     match_team_attributes |-> SetMatchTeamAttributes(sheets)]

----------------------------------------------------------------------------
(* insights/squad.py : SquadPerformanceInsights *)

\* _preprocess_matches: the points column of one match row
Points(m) ==
    IF m.goals_scored > m.goals_conceded THEN 3
    ELSE IF m.goals_scored = m.goals_conceded THEN 1
    ELSE 0

PreprocessMatches(matches) ==
    AsSeq([k \in 1..Len(matches) |-> [points |-> Points(matches[k])]
                                        @@ matches[k]])

----------------------------------------------------------------------------
(* model/recommendations.py : Alert *)

Alert(type, prio, position, player) ==
    [alert_type |-> type, alert_priority |-> prio,
     position |-> position, player |-> player]

----------------------------------------------------------------------------
(* recommendations/alerts.py : PlayerAlerts, preprocessing *)

\* Series.fillna(value) on one entry
FillNa(x, value) == IF IsNaN(x) THEN value ELSE x

\* x // 1000 * 1000, NaN for NaN
Floor1000(x) == IF IsNaN(x) THEN NaN ELSE (x \div 1000) * 1000

\* the loan-returns are not filtered out
PreprocessTransfersAlt(tm) ==
    IF tm.transfers = <<>> THEN [empty |-> TRUE, rows |-> <<>>]
    ELSE
        LET Incoming(t) == t.to_team_id = tm.team_id
            kept == SelectIdx(tm.transfers, Incoming)
            TransferDate(t) == t.transfer_date
            sorted == SortValuesDesc(kept, TransferDate)
            first == {i \in 1..Len(sorted) :
                        \A j \in 1..(i - 1) :
                            sorted[j].player_id # sorted[i].player_id}
            D[i \in 0..Len(sorted)] ==
                IF i = 0 THEN <<>>
                ELSE IF i \in first
                     THEN Append(D[i - 1],
                            [paid_fee |-> FillNa(sorted[i].fee, 0),
                             academy_player |-> sorted[i].is_internal,
                             starting_market_value |->
                                FillNa(sorted[i].market_value, 0),
                             player_id |-> sorted[i].player_id])
                     ELSE D[i - 1]
        IN  [empty |-> FALSE, rows |-> D[Len(sorted)]]

\* rows of the frame returned by _preprocess_transfers; empty marks the
\* column-less pd.DataFrame() of the else branch
PreprocessTransfers(tm) ==
    IF tm.transfers = <<>> THEN [empty |-> TRUE, rows |-> <<>>]
    ELSE
        LET Incoming(t) == t.to_team_id = tm.team_id
            NotEndLoan(t) == ~t.is_end_loan
            kept == SelectIdx(SelectIdx(tm.transfers, Incoming), NotEndLoan)
            TransferDate(t) == t.transfer_date
            sorted == SortValuesDesc(kept, TransferDate)
            first == {i \in 1..Len(sorted) :
                        \A j \in 1..(i - 1) :
                            sorted[j].player_id # sorted[i].player_id}
            D[i \in 0..Len(sorted)] ==
                IF i = 0 THEN <<>>
                ELSE IF i \in first
                     THEN Append(D[i - 1],
                            [paid_fee |-> FillNa(sorted[i].fee, 0),
                             academy_player |-> sorted[i].is_internal,
                             starting_market_value |->
                                FillNa(sorted[i].market_value, 0),
                             player_id |-> sorted[i].player_id])
                     ELSE D[i - 1]
        IN  [empty |-> FALSE, rows |-> D[Len(sorted)]]

\* groupby("player_id").agg(total_minutes = sum, total_games = count)
TotalMinutes(facts, pid) ==
    LET Mine(f) == f.player_id = pid
        mine == SelectIdx(facts, Mine)
    IN  IF mine = <<>> THEN NaN
        ELSE SumSeq(AsSeq([i \in 1..Len(mine) |-> mine[i].minutes_played]))

TotalGames(facts, pid) ==
    Cardinality({i \in 1..Len(facts) : facts[i].player_id = pid})

AvailableMinutes(tm) ==
    SumSeq(AsSeq([k \in 1..Len(tm.match_team_attributes) |->
                tm.match_team_attributes[k].match_duration]))

\* round(total_minutes / available_minutes * 100, 1), in tenths
Usage(total, available) ==
    IF IsNaN(total) \/ available = 0 THEN NaN
    ELSE RoundHalfEven(total * 1000, available)

UsageKey(row) == row.usage

\* (now.year - x.year) * 12 + now.month - x.month, None for a missing date;
\* the value is <<n>> for the number n and <<>> for None
MonthsLeft(x, nowv) ==
    IF x.nat THEN <<>>
    ELSE <<(nowv.year - x.year) * 12 + nowv.month - x.month>>

\* one squad row after the merge with the transfers and _preprocess_squad
PreprocessRow(p, trows, tm, nowv) ==
    LET hit == {i \in 1..Len(trows) : trows[i].player_id = p.player_id}
        tr == IF hit = {} THEN [paid_fee |-> 0, academy_player |-> FALSE,
                                starting_market_value |-> NaN]
              ELSE trows[CHOOSE i \in hit : TRUE]
        total == TotalMinutes(tm.match_team_players, p.player_id)
        cend == IF p.on_loan THEN p.loan_end ELSE p.contract_end
        etv_current == Floor1000(p.etv_current)
        etv_revenue == IF p.on_loan \/ IsNaN(etv_current) THEN NaN
                       ELSE etv_current - tr.paid_fee
        value_added == IF \/ p.on_loan
                          \/ IsNaN(p.market_value)
                          \/ IsNaN(tr.starting_market_value)
                       THEN NaN
                       ELSE p.market_value - tr.starting_market_value
    IN  [player_id |-> p.player_id, name |-> p.name,
         birth_date |-> p.birth_date,
         first_position |-> p.first_position,
         second_position |-> p.second_position,
         third_position |-> p.third_position,
         contract_end |-> cend, loan_end |-> p.loan_end,
         on_loan |-> p.on_loan,
         sciskill |-> p.sciskill, potential |-> p.potential,
         paid_fee |-> tr.paid_fee, academy_player |-> tr.academy_player,
         starting_market_value |-> tr.starting_market_value,
         market_value |-> p.market_value,
         etv_current |-> etv_current,
         etv_dev |-> Floor1000(p.etv_dev),
         etv_revenue |-> FillNa(Floor1000(etv_revenue), 0),
         value_added |-> FillNa(value_added, 0),
         total_minutes |-> total,
         total_games |-> TotalGames(tm.match_team_players, p.player_id),
         usage |-> Usage(total, AvailableMinutes(tm)),
         months_left |-> MonthsLeft(cend, nowv)]

\* _preprocess: the left merges need the key columns, which the frames built
\* from an empty list do not have (KeyError)
PreprocessFails(tm) ==
    \/ tm.squad = <<>>
    \/ PreprocessTransfers(tm).empty
    \/ tm.match_team_players = <<>>
    \/ tm.match_team_attributes = <<>>

Preprocess(tm, nowv) ==
    LET trows == PreprocessTransfers(tm).rows
        rows == AsSeq([i \in 1..Len(tm.squad) |->
                    PreprocessRow(tm.squad[i], trows, tm, nowv)])
    IN  SortValuesDesc(rows, UsageKey)


----------------------------------------------------------------------------
(* recommendations/alerts.py : PlayerAlerts, alert rules *)

\* a string outside the mapping gives no Position
PlayerMapGroupAlt(group) ==
    CASE group = "Goalkeeper" -> "GOALKEEPER"
      [] group = "CentreBack" -> "CENTRE_BACK"
      [] group = "LeftBack" -> "LEFT_BACK"
      [] group = "RightBack" -> "RIGHT_BACK"
      [] group = "DefensiveMidfield" -> "DEFENSIVE_MIDFIELDER"
      [] group = "CentreMidfield" -> "CENTRE_MIDFIELDER"
      [] group = "AttackingMidfield" -> "ATTACKING_MIDFIELDER"
      [] group = "RightWing" -> "RIGHT_WING"
      [] group = "LeftWing" -> "LEFT_WING"
      [] group = "CentreForward" -> "CENTRE_FORWARD"
      [] OTHER -> "None"

PlayerMapGroup(group) ==
    CASE group = "Goalkeeper" -> "GOALKEEPER"
      [] group = "CentreBack" -> "CENTRE_BACK"
      [] group = "LeftBack" -> "LEFT_BACK"
      [] group = "RightBack" -> "RIGHT_BACK"
      [] group = "DefensiveMidfield" -> "DEFENSIVE_MIDFIELDER"
      [] group = "CentreMidfield" -> "CENTRE_MIDFIELDER"
      [] group = "AttackingMidfield" -> "ATTACKING_MIDFIELDER"
      [] group = "RightWing" -> "RIGHT_WING"
      [] group = "LeftWing" -> "LEFT_WING"
      [] group = "CentreForward" -> "CENTRE_FORWARD"
      [] OTHER -> "OTHER"

\* the first boundary is taken as inclusive
GetPlayerPriorityAlt(plr) ==
    IF (~IsNaN(plr.usage)) /\ plr.usage >= 750 THEN "CRITICAL"
    ELSE IF FloatGt(plr.usage, 500) /\ FloatLe(plr.usage, 750) THEN "HIGH"
    ELSE IF FloatGt(plr.usage, 250) /\ FloatLe(plr.usage, 500) THEN "MEDIUM"
    ELSE "LOW"

GetPlayerPriority(plr) ==
    IF FloatGt(plr.usage, 750) THEN "CRITICAL"
    ELSE IF FloatGt(plr.usage, 500) /\ FloatLe(plr.usage, 750) THEN "HIGH"
    ELSE IF FloatGt(plr.usage, 250) /\ FloatLe(plr.usage, 500) THEN "MEDIUM"
    ELSE "LOW"

\* the age is taken from the clock instead of the run date
AgeDaysAlt(row, c) == Days(now'.ticks - row.birth_date.ticks)

\* whole days of run_date - birth_date (Series.dt.days)
AgeDays(row, c) == Days(c.run_date.ticks - row.birth_date.ticks)

\* the expiry is taken as on or before the run date
ExcludeAlt(row, c) ==
    \/ (DateLeTicks(row.contract_end, c.run_date.ticks) /\ ~row.on_loan)
    \/ (DateLeTicks(row.loan_end, c.run_date.ticks) /\ row.on_loan)

Exclude(row, c) ==
    \/ (DateLt(row.contract_end, c.run_date) /\ ~row.on_loan)
    \/ (DateLt(row.loan_end, c.run_date) /\ row.on_loan)

\* _move_squad_forward: the rows with age and exclude, the alerts of the
\* excluded rows in row order, and the rows that stay
MoveSquadForward(rows, c) ==
    LET aged == AsSeq([i \in 1..Len(rows) |->
                    [age |-> AgeDays(rows[i], c),
                     exclude |-> Exclude(rows[i], c)] @@ rows[i]])
        Out(r) == r.exclude
        Stay(r) == ~r.exclude
        out == SelectIdx(aged, Out)
    IN  [alerts |-> AsSeq([i \in 1..Len(out) |->
                        Alert("CONTRACT_OR_LOAN_EXPIRED",
                              GetPlayerPriority(out[i]),
                              PlayerMapGroup(out[i].first_position),
                              out[i].name)]),
         squad |-> SelectIdx(aged, Stay)]

\* the loan flag is not consulted
ContractEndsAlertAlt(row, c) ==
    DateLeTicks(row.contract_end, c.run_date.ticks + c.contract_delta)

ContractEndsAlert(row, c) ==
    /\ DateLeTicks(row.contract_end, c.run_date.ticks + c.contract_delta)
    /\ ~row.on_loan

\* the contract window is used for loans
LoanEndsAlertAlt(row, c) ==
    /\ DateLeTicks(row.loan_end, c.run_date.ticks + c.contract_delta)
    /\ row.on_loan

LoanEndsAlert(row, c) ==
    /\ DateLeTicks(row.loan_end, c.run_date.ticks + c.loan_delta)
    /\ row.on_loan

\* the limit is taken as inclusive
AgeAlertAlt(row, c) == row.age * 10000 >= c.peak_age_limit * 36525

\* age > peak_age_limit with age = days / 365.25
AgeAlert(row, c) == row.age * 10000 > c.peak_age_limit * 36525

GetPlayerAlertType(flags) ==
    (IF flags.contract_ends_alert THEN <<"CONTRACT_ENDING">> ELSE <<>>)
    \o (IF flags.loan_ends_alert THEN <<"LOAN_ENDING">> ELSE <<>>)
    \o (IF flags.age_alert THEN <<"PAST_PEAK_AGE">> ELSE <<>>)

SetPlayerAlerts(row) ==
    LET prio == GetPlayerPriority(row)
        types == GetPlayerAlertType(row)
    IN  AsSeq([i \in 1..Len(types) |->
            Alert(types[i], prio, PlayerMapGroup(row.first_position),
                  row.name)])

\* _set_contract_action, _set_loan_ending, _set_age_issues
SetAlertFlags(rows, c) ==
    AsSeq([i \in 1..Len(rows) |->
        [contract_ends_alert |-> ContractEndsAlert(rows[i], c),
         loan_ends_alert |-> LoanEndsAlert(rows[i], c),
         age_alert |-> AgeAlert(rows[i], c)] @@ rows[i]])

RECURSIVE ConcatAll(_)
ConcatAll(ss) == IF ss = <<>> THEN <<>> ELSE Head(ss) \o ConcatAll(Tail(ss))


----------------------------------------------------------------------------
(* recommendations/alerts.py : PositionAlerts *)

\* the position groups in the order _aggregate_groups visits them
PositionGroups ==
    <<"Goalkeeper", "CentreBack", "LeftBack", "RightBack",
      "DefensiveMidfield", "CentralMidfield", "AttackingMidfield",
      "RightWing", "LeftWing", "CentreForward">>

PositionMapGroup(group) ==
    CASE group = "Goalkeeper" -> "GOALKEEPER"
      [] group = "CentreBack" -> "CENTRE_BACK"
      [] group = "LeftBack" -> "LEFT_BACK"
      [] group = "RightBack" -> "RIGHT_BACK"
      [] group = "DefensiveMidfield" -> "DEFENSIVE_MIDFIELDER"
      [] group = "CentralMidfield" -> "CENTRE_MIDFIELDER"
      [] group = "AttackingMidfield" -> "ATTACKING_MIDFIELDER"
      [] group = "RightWing" -> "RIGHT_WING"
      [] group = "LeftWing" -> "LEFT_WING"
      [] group = "CentreForward" -> "CENTRE_FORWARD"
      [] OTHER -> "OTHER"

\* _map_group(group, reverse=True); "None" stands for the missing key
PositionMapGroupReverse(position) ==
    CASE position = "GOALKEEPER" -> "Goalkeeper"
      [] position = "CENTRE_BACK" -> "CentreBack"
      [] position = "LEFT_BACK" -> "LeftBack"
      [] position = "RIGHT_BACK" -> "RightBack"
      [] position = "DEFENSIVE_MIDFIELDER" -> "DefensiveMidfield"
      [] position = "CENTRE_MIDFIELDER" -> "CentralMidfield"
      [] position = "ATTACKING_MIDFIELDER" -> "AttackingMidfield"
      [] position = "RIGHT_WING" -> "RightWing"
      [] position = "LEFT_WING" -> "LeftWing"
      [] position = "CENTRE_FORWARD" -> "CentreForward"
      [] OTHER -> "None"

\* PositionAlerts._preprocess_squad: one squad row
PositionPreprocessRow(p, tm) ==
    LET total == TotalMinutes(tm.match_team_players, p.player_id)
    IN  [player_id |-> p.player_id, name |-> p.name,
         first_position |-> p.first_position,
         second_position |-> p.second_position,
         third_position |-> p.third_position,
         sciskill |-> p.sciskill, potential |-> p.potential,
         total_minutes |-> total,
         total_games |-> TotalGames(tm.match_team_players, p.player_id),
         usage |-> Usage(total, AvailableMinutes(tm))]

PositionPreprocessFails(tm) ==
    \/ tm.squad = <<>>
    \/ tm.match_team_players = <<>>
    \/ tm.match_team_attributes = <<>>

PositionPreprocess(tm) ==
    SortValuesDesc(AsSeq([i \in 1..Len(tm.squad) |->
                            PositionPreprocessRow(tm.squad[i], tm)]),
                   UsageKey)

SciskillKey(row) == row.sciskill

\* the third position is not looked at
GetPositionGroupAlt(squad, position, include_secondary_positions) ==
    LET group == PositionMapGroupReverse(position)
        In(r) == \/ r.first_position = group
                 \/ (include_secondary_positions
                        /\ r.second_position = group)
    IN  SortValuesDesc(SelectIdx(squad, In), SciskillKey)

\* with secondary positions the first position is not looked at
GetPositionGroupSecondaryOnly(squad, position, include_secondary_positions) ==
    LET group == PositionMapGroupReverse(position)
        In(r) == IF include_secondary_positions
                 THEN \/ r.second_position = group
                      \/ r.third_position = group
                 ELSE r.first_position = group
    IN  SortValuesDesc(SelectIdx(squad, In), SciskillKey)

GetPositionGroup(squad, position, include_secondary_positions) ==
    LET group == PositionMapGroupReverse(position)
        In(r) == \/ r.first_position = group
                 \/ (include_secondary_positions
                        /\ (\/ r.second_position = group
                            \/ r.third_position = group))
    IN  SortValuesDesc(SelectIdx(squad, In), SciskillKey)

SetPositionBenchmarks(squad, position) ==
    LET df == GetPositionGroup(squad, position, TRUE)
    IN  [group |-> position,
         starter_level |-> IF Len(df) > 0 THEN df[1].sciskill ELSE 0,
         starter_potential |-> IF Len(df) > 0 THEN df[1].potential ELSE 0,
         back_up_level |-> IF Len(df) > 1 THEN df[2].sciskill ELSE 0,
         back_up_potential |-> IF Len(df) > 1 THEN df[2].potential ELSE 0,
         secondary_back_up_level |->
            IF Len(df) > 2 THEN df[3].sciskill ELSE 0,
         secondary_back_up_potential |->
            IF Len(df) > 2 THEN df[3].potential ELSE 0]

\* the rows _aggregate_groups appends to _benchmarks
AggregateGroups(squad) ==
    AsSeq([k \in 1..Len(PositionGroups) |->
            SetPositionBenchmarks(squad, PositionMapGroup(PositionGroups[k]))])

\* _set_rank: sort in place on the column, renumber, rank = index + 1
SetRank(df, col, rankcol) ==
    LET Col(r) == r[col]
        sorted == SortValuesDesc(df, Col)
    IN  AsSeq([i \in 1..Len(sorted) |-> (rankcol :> i) @@ sorted[i]])

\* _get_set_group_kpis on the frame of _benchmarks
GetSetGroupKpis(benchmarks) ==
    LET d1 == SetRank(benchmarks, "starter_level", "starter_level_rank")
        d2 == SetRank(d1, "back_up_level", "back_up_level_rank")
        d3 == SetRank(d2, "secondary_back_up_level",
                      "secondary_back_up_level_rank")
        d4 == SetRank(d3, "starter_potential", "starter_potential_rank")
        d5 == SetRank(d4, "back_up_potential", "back_up_potential_rank")
    IN  SetRank(d5, "secondary_back_up_potential",
                "secondary_back_up_potential_rank")

\* the row whose values the last assignment to the rows of a group used
LastOfGroup(df, group) ==
    LET F[i \in 0..Len(df)] ==
            IF i = 0 THEN 0
            ELSE IF df[i].group = group THEN i ELSE F[i - 1]
    IN  df[F[Len(df)]]

\* the secondary back-up is not tested
DepthIssueAlt(g) ==
    \/ g.starter_level = 0
    \/ g.back_up_level = 0

DepthIssue(g) ==
    \/ g.starter_level = 0
    \/ g.back_up_level = 0
    \/ g.secondary_back_up_level = 0

SetDepthIssues(df) ==
    AsSeq([i \in 1..Len(df) |->
            [depth_alert |-> DepthIssue(LastOfGroup(df, df[i].group))]
            @@ df[i]])

\* Series.max() of a column
MaxOf(df, col) ==
    LET F[i \in 1..Len(df)] ==
            IF i = 1 THEN df[1][col]
            ELSE LET m == F[i - 1]
                 IN  IF df[i][col] > m THEN df[i][col] ELSE m
    IN  F[Len(df)]

\* one bottom rank is enough
WeakAlt(df, g, levelrank, potentialrank) ==
    \/ g[levelrank] > MaxOf(df, levelrank) - 3
    \/ g[potentialrank] > MaxOf(df, potentialrank) - 3

Weak(df, g, levelrank, potentialrank) ==
    /\ g[levelrank] > MaxOf(df, levelrank) - 3
    /\ g[potentialrank] > MaxOf(df, potentialrank) - 3

SetStrengthIssues(df, levelrank, potentialrank, alertcol) ==
    AsSeq([i \in 1..Len(df) |->
            (alertcol :> Weak(df, LastOfGroup(df, df[i].group),
                              levelrank, potentialrank))
            @@ df[i]])

GetSetAlerts(benchmarks) ==
    LET d0 == SetDepthIssues(GetSetGroupKpis(benchmarks))
        d1 == SetStrengthIssues(d0, "starter_level_rank",
                                "starter_potential_rank",
                                "weak_starter_alert")
        d2 == SetStrengthIssues(d1, "back_up_level_rank",
                                "back_up_potential_rank",
                                "weak_back_up_alert")
    IN  SetStrengthIssues(d2, "secondary_back_up_level_rank",
                          "secondary_back_up_potential_rank",
                          "weak_secondary_back_up_alert")

NoPlayer == "None"

SetPositionAlerts(pos) ==
    (IF pos.depth_alert
     THEN <<Alert("LACK_OF_DEPTH", "MEDIUM", pos.group, NoPlayer)>>
     ELSE <<>>)
    \o (IF pos.weak_starter_alert
        THEN <<Alert("WEAK_SPOT_STARTER", "HIGH", pos.group, NoPlayer)>>
        ELSE <<>>)
    \o (IF pos.weak_back_up_alert
        THEN <<Alert("WEAK_SPOT_BACK_UP", "MEDIUM", pos.group, NoPlayer)>>
        ELSE <<>>)
    \o (IF pos.weak_secondary_back_up_alert
        THEN <<Alert("WEAK_SPOT_SECONDARY", "LOW", pos.group, NoPlayer)>>
        ELSE <<>>)

----------------------------------------------------------------------------
(* Inputs *)

TeamId == 1099

OtherPlayerId == 0

Names == <<"A", "B", "C", "D", "E", "F">>

D1990 == Date(17435232, 1990, 1)

DRun == Date(17737632, 2024, 7)

DRunNoon == Date(17737644, 2024, 7)

D26w == Date(17742000, 2024, 12)

D52w == Date(17746368, 2025, 6)

DFar == Date(17763888, 2027, 6)

DNextMonth == Date(17738376, 2024, 8)

\* born 10227 days (28 * 365.25) and 10228 days before DRun
BornAtLimit == Date(17492184, 1996, 7)

BornBefore == Date(17492160, 1996, 6)

EndDates == {NaT, D1990, DRun, D26w, D52w, DFar}

NowTimes == {DRunNoon, DNextMonth}

PeakAgeLimitDefault == 2800

ContractDeltaDefault == Weeks(52)

LoanDeltaDefault == Weeks(26)

\* run_date: datetime = datetime.now(), evaluated once, when the module is
\* loaded, which is the time the first engine is created at
RunDateDefault == DRunNoon

\* the parameters of a constructor call; run_date_given is false for a call
\* without run_date
Configs ==
    { [run_date |-> DRun, run_date_given |-> TRUE,
       contract_delta |-> ContractDeltaDefault,
       loan_delta |-> LoanDeltaDefault, peak_age_limit |-> PeakAgeLimitDefault],
      [run_date |-> RunDateDefault, run_date_given |-> FALSE,
       contract_delta |-> ContractDeltaDefault,
       loan_delta |-> LoanDeltaDefault, peak_age_limit |-> PeakAgeLimitDefault],
      [run_date |-> DRun, run_date_given |-> TRUE,
       contract_delta |-> Weeks(26),
       loan_delta |-> Weeks(52), peak_age_limit |-> 3000] }

Absent == NaN

MinuteChoices == {Absent, 0, 30, 60, 90, 91, 120}

Tenure(loan, cend, lend) ==
    [on_loan |-> loan, contract_end |-> cend, loan_end |-> lend]

Tenures ==
    {Tenure(FALSE, d, l) : d \in EndDates, l \in {D1990, D26w}}
    \cup {Tenure(TRUE, d, l) : d \in {NaT, D1990, DFar}, l \in EndDates}

KeyTenures ==
    {Tenure(FALSE, D1990, D1990), Tenure(FALSE, D52w, D1990),
     Tenure(TRUE, DFar, D26w), Tenure(TRUE, D1990, D1990)}

\* market value, value estimate and its development of a player
Money(mv, etv, dev) ==
    [market_value |-> mv, etv_current |-> etv, etv_dev |-> dev]

PlainMoney == Money(300000, 400000, 0)

Profile(t, b, m, pos, sk, pot) ==
    [tenure |-> t, birth |-> b, mins |-> m, positions |-> pos,
     sciskill |-> sk, potential |-> pot, money |-> PlainMoney]

RichProfiles ==
    {Profile(t, b, 60, <<"CentreMidfield", "", "">>, 60, 70) :
        t \in Tenures, b \in {BornAtLimit, BornBefore}}
    \cup {Profile(t, b, m, <<"LeftBack", "", "">>, 60, 70) :
        t \in KeyTenures, b \in {BornAtLimit, BornBefore},
        m \in MinuteChoices}

PlainProfiles ==
    {Profile(Tenure(FALSE, D1990, D1990), BornBefore, 60,
             <<"Goalkeeper", "", "">>, 60, 70),
     Profile(Tenure(FALSE, DFar, D1990), BornBefore, Absent,
             <<"CentralMidfield", "", "">>, 60, 70),
     Profile(Tenure(FALSE, DFar, D1990), BornBefore, 90,
             <<"", "", "">>, 60, 70)}

SquadPlayer(i, pr) ==
    [player_id |-> i, name |-> Names[i], birth_date |-> pr.birth,
     first_position |-> pr.positions[1],
     second_position |-> pr.positions[2],
     third_position |-> pr.positions[3],
     contract_end |-> pr.tenure.contract_end,
     loan_end |-> pr.tenure.loan_end,
     on_loan |-> pr.tenure.on_loan,
     market_value |-> pr.money.market_value,
     etv_current |-> pr.money.etv_current,
     etv_dev |-> pr.money.etv_dev,
     sciskill |-> pr.sciskill, potential |-> pr.potential]

\* goals of the team and of the opponent in the successive matches
Scores == <<<<2, 1>>, <<0, 1>>, <<1, 1>>>>

\* m match sheets: a team mate outside the roster plays 120 minutes in each,
\* the roster players play their minutes in the first one
SheetsOf(prs, m) ==
    AsSeq([k \in 1..m |->
        [id |-> k,
         goals |-> Scores[((k - 1) % Len(Scores)) + 1][1],
         opponent_goals |-> Scores[((k - 1) % Len(Scores)) + 1][2],
         players |->
            <<[player_id |-> OtherPlayerId, minutesPlayed |-> 120]>>
            \o (IF k = 1
                THEN LET In(i) == prs[i].mins # Absent
                         idx == SelectIdx([i \in 1..Len(prs) |-> i], In)
                     IN  [j \in 1..Len(idx) |->
                            [player_id |-> idx[j],
                             minutesPlayed |-> prs[idx[j]].mins]]
                ELSE <<>>)]])

Transfer(pid, to, fee, internal, endloan, loan, mv, date) ==
    [player_id |-> pid, to_team_id |-> to, fee |-> fee,
     is_internal |-> internal, is_end_loan |-> endloan, is_loan |-> loan,
     market_value |-> mv, transfer_date |-> date]

TransferLists1 ==
    <<Transfer(1, TeamId, 250000, FALSE, FALSE, FALSE, 300000, 17700000)>>

\* transfer histories of roster players 1 and 2: a single purchase; a later
\* sale; a later loan-return; a later arrival listed last; two arrivals on
\* one date; no arrival at all; an arrival without fee and market value; and
\* a mixed history
TransferLists ==
    {<<Transfer(1, TeamId, 250500, FALSE, FALSE, FALSE, 300700, 17700000)>>,
     <<Transfer(1, TeamId, 250500, FALSE, FALSE, FALSE, 300700, 17700000),
       Transfer(1, TeamId + 1, 900000, FALSE, FALSE, FALSE, 950000,
                17720000)>>,
     <<Transfer(1, TeamId, 250500, FALSE, FALSE, FALSE, 300700, 17700000),
       Transfer(1, TeamId, 0, TRUE, TRUE, FALSE, 800000, 17720000)>>,
     <<Transfer(1, TeamId, 250500, FALSE, FALSE, FALSE, 300700, 17700000),
       Transfer(1, TeamId, 0, TRUE, FALSE, FALSE, 120000, 17710000)>>,
     <<Transfer(1, TeamId, 100000, FALSE, FALSE, FALSE, 150000, 17710000),
       Transfer(1, TeamId, 500000, FALSE, FALSE, TRUE, 650000, 17710000)>>,
     <<Transfer(1, TeamId + 1, 900000, FALSE, FALSE, FALSE, 950000,
                17720000)>>,
     <<Transfer(2, TeamId, NaN, FALSE, FALSE, FALSE, NaN, 17700000)>>,
     <<Transfer(1, TeamId, 500000, FALSE, FALSE, TRUE, 650000, 17710000),
       Transfer(1, TeamId, 100000, TRUE, FALSE, FALSE, 150000, 17710000),
       Transfer(1, TeamId + 1, 900000, FALSE, FALSE, FALSE, 950000,
                17720000),
       Transfer(2, TeamId, 1999, FALSE, FALSE, FALSE, 2001, 17700000)>>}

MoneyChoices ==
    {PlainMoney, Money(300700, 1234567, -1500), Money(0, 0, 0)}

\* the first roster player of the teams with a transfer history: under
\* contract or on a running loan
MoneyProfiles ==
    {[Profile(t, BornBefore, 60, <<"LeftBack", "", "">>, 60, 70)
        EXCEPT !.money = mo] :
        t \in {Tenure(FALSE, DFar, D1990), Tenure(TRUE, DFar, D52w)},
        mo \in MoneyChoices}

TeamOf(prs, m, trs) ==
    SciSportsTeam(TeamId,
                  AsSeq([i \in 1..Len(prs) |-> SquadPlayer(i, prs[i])]),
                  SheetsOf(prs, m), trs)

\* profiles of the rosters the position benchmarks are computed on
LeftBacks ==
    {Profile(Tenure(FALSE, DFar, D1990), BornBefore, m,
             <<"LeftBack", "", "">>, sk, pot) :
        <<m, sk, pot>> \in {<<30, 80, 50>>, <<60, 60, 70>>, <<60, 40, 90>>,
                            <<Absent, 0, 0>>}}

Versatile ==
    {Profile(Tenure(FALSE, DFar, D1990), BornBefore, 60, pos, sk, pot) :
        <<pos, sk, pot>> \in
            {<<<<"Goalkeeper", "CentreBack", "LeftBack">>, 80, 50>>,
             <<<<"Goalkeeper", "CentreBack", "LeftBack">>, 40, 90>>,
             <<<<"RightBack", "DefensiveMidfield", "CentralMidfield">>,
               60, 70>>,
             <<<<"AttackingMidfield", "RightWing", "LeftWing">>, 40, 90>>,
             <<<<"CentreMidfield", "", "CentreForward">>, 60, 70>>}}

PositionProfiles == LeftBacks \cup Versatile

\* no CollaborationAPI call made yet
NoCall == [method |-> "None", name |-> "", user_id |-> "", players |-> <<>>]

\* the call returned without raising
NoError == [type |-> "None", message |-> <<>>]

NoPlan == [tasks |-> <<>>, nations |-> <<>>]

NoConfig == [run_date |-> NaT, run_date_given |-> FALSE,
             contract_delta |-> 0, loan_delta |-> 0, peak_age_limit |-> 0]

EnginesIdle ==
    /\ now = DRunNoon
    /\ cfg = NoConfig
    /\ pa_state = "none" /\ pa_squad = <<>> /\ pa_alerts = <<>>
    /\ pa_calls = 0 /\ pa_run = 0 /\ pa_results = <<>>
    /\ po_state = "none" /\ po_squad = <<>> /\ po_benchmarks = <<>>
    /\ po_groups = <<>> /\ po_alerts = <<>> /\ po_calls = 0
    /\ co_labels = <<>> /\ co_shortlists = <<>> /\ co_next_id = 1
    /\ co_call = NoCall /\ co_sent = <<>> /\ co_error = NoError
    /\ sp_input = NoPlan /\ sp_pc = "none" /\ sp_task = 0
    /\ sp_league_ids = <<>> /\ sp_lists = <<>> /\ sp_log = <<>>

\* rosters of up to MaxSquad players, one of them with a rich profile, on
\* one match; single players on more matches; and the degenerate teams
\* without matches or without transfers
InitPlayer ==
    /\ \/ \E n \in 1..MaxSquad, k \in 1..MaxSquad :
            /\ k <= n
            /\ \E r \in RichProfiles, f \in [(1..n) \ {k} -> PlainProfiles] :
                team = TeamOf([i \in 1..n |-> IF i = k THEN r ELSE f[i]],
                              1, TransferLists1)
       \/ \E m \in 2..MaxMatches, r \in RichProfiles :
            team = TeamOf(<<r>>, m, TransferLists1)
       \/ \E pr \in PlainProfiles :
            team \in {TeamOf(<<pr>>, 0, TransferLists1),
                      TeamOf(<<pr>>, 1, <<>>)}
       \/ \E pr \in MoneyProfiles, pl \in PlainProfiles,
              trs \in TransferLists :
            team = TeamOf(<<pr, pl>>, 1, trs)
    /\ EnginesIdle

----------------------------------------------------------------------------
(* PlayerAlerts : operations *)

\* PlayerAlerts.__init__ on the team with parameters c, at clock time t
PlayerAlertsConstruct(c, t) ==
    /\ now' = t
    /\ pa_run' = pa_run + 1
    /\ IF PreprocessFails(team)
       THEN /\ pa_state' = "error"
            /\ UNCHANGED <<cfg, pa_squad, pa_alerts, pa_calls>>
       ELSE \E m \in {MoveSquadForward(Preprocess(team, t), c)} :
                /\ pa_state' = "ready"
                /\ cfg' = c
                /\ pa_squad' = m.squad
                /\ pa_alerts' = m.alerts
                /\ pa_calls' = 0
    /\ UNCHANGED <<team, pa_results>>
    /\ UNCHANGED po_vars
    /\ UNCHANGED co_vars
    /\ UNCHANGED sp_vars

NewPlayerAlerts ==
    /\ pa_state = "none"
    /\ \E c \in Configs : PlayerAlertsConstruct(c, now)

\* a later instance on the same team with the same parameters
RerunPlayerAlerts ==
    /\ pa_state = "ready"
    /\ pa_calls >= 1
    /\ pa_run < MaxRuns
    /\ \E t \in NowTimes :
        /\ t.ticks >= now.ticks
        /\ PlayerAlertsConstruct(cfg, t)

\* set_alerts on an instance with the given _squad and alerts
PlayerSetAlertsResult(squad, c, alerts0) ==
    LET flagged == SetAlertFlags(squad, c)
    IN  [squad |-> flagged,
         alerts |-> alerts0 \o
            ConcatAll(AsSeq([i \in 1..Len(flagged) |->
                                SetPlayerAlerts(flagged[i])]))]

\* PlayerAlerts.set_alerts
PlayerSetAlerts ==
    /\ pa_state = "ready"
    /\ pa_calls < MaxCalls
    /\ \E res \in {PlayerSetAlertsResult(pa_squad, cfg, pa_alerts)} :
        /\ pa_squad' = res.squad
        /\ pa_alerts' = res.alerts
        /\ pa_results' = IF pa_calls = 0
                         THEN Append(pa_results, res.alerts)
                         ELSE pa_results
    /\ pa_calls' = pa_calls + 1
    /\ UNCHANGED <<team, now, cfg, pa_state, pa_run>>
    /\ UNCHANGED po_vars
    /\ UNCHANGED co_vars
    /\ UNCHANGED sp_vars

NextPlayer ==
    \/ NewPlayerAlerts
    \/ RerunPlayerAlerts
    \/ PlayerSetAlerts

SpecPlayer == InitPlayer /\ [][NextPlayer]_vars


----------------------------------------------------------------------------
(* Properties of PlayerAlerts *)

Roster == 1..Len(team.squad)

\* number of alerts of a type that name roster player i
CountAlerts(i, type) ==
    Cardinality({k \in 1..Len(pa_alerts) :
                    /\ pa_alerts[k].player = team.squad[i].name
                    /\ pa_alerts[k].alert_type = type})

TypesOf(i) ==
    {pa_alerts[k].alert_type : k \in
        {k \in 1..Len(pa_alerts) : pa_alerts[k].player = team.squad[i].name}}

\* the operative expiry date: loan_end if on_loan, else contract_end
OperativeExpiry(i) ==
    IF team.squad[i].on_loan THEN team.squad[i].loan_end
    ELSE team.squad[i].contract_end

Expired(i) ==
    /\ ~OperativeExpiry(i).nat
    /\ OperativeExpiry(i).ticks < cfg.run_date.ticks

WholeDays(i) == (cfg.run_date.ticks - team.squad[i].birth_date.ticks) \div 24

PastPeak(i) == WholeDays(i) * 100 * 100 > cfg.peak_age_limit * 36525

\* usage of roster player i in tenths of a percent, NaN without minutes
UsageOf(i) ==
    Usage(TotalMinutes(team.match_team_players, team.squad[i].player_id),
          AvailableMinutes(team))

IndexOfName(nm) == CHOOSE i \in Roster : team.squad[i].name = nm

PriorityOfUsage(u) ==
    IF u > 750 THEN "CRITICAL"
    ELSE IF u > 500 THEN "HIGH"
    ELSE IF u > 250 THEN "MEDIUM"
    ELSE "LOW"

\* C1: a player whose operative expiry date is strictly before the as-of
\* date has exactly one CONTRACT_OR_LOAN_EXPIRED alert and no
\* CONTRACT_ENDING, LOAN_ENDING or PAST_PEAK_AGE alert; any other player has
\* no CONTRACT_OR_LOAN_EXPIRED alert
C1_ExpiredExactlyOnce ==
    pa_state = "ready" =>
        \A i \in Roster :
            IF Expired(i)
            THEN /\ CountAlerts(i, "CONTRACT_OR_LOAN_EXPIRED") = 1
                 /\ CountAlerts(i, "CONTRACT_ENDING") = 0
                 /\ CountAlerts(i, "LOAN_ENDING") = 0
                 /\ CountAlerts(i, "PAST_PEAK_AGE") = 0
            ELSE CountAlerts(i, "CONTRACT_OR_LOAN_EXPIRED") = 0

\* an expired player past the peak age and a player expiring on the as-of
\* date itself, after set_alerts has run
C1_Witness ==
    /\ pa_state = "ready" /\ pa_calls >= 1
    /\ \E i \in Roster :
        /\ Expired(i) /\ PastPeak(i)
        /\ CountAlerts(i, "CONTRACT_OR_LOAN_EXPIRED") = 1
    /\ \E i \in Roster :
        /\ ~OperativeExpiry(i).nat
        /\ OperativeExpiry(i).ticks = cfg.run_date.ticks
        /\ TypesOf(i) # {}

\* C2: every player alert has the priority given by the usage of its player:
\* CRITICAL above 75, HIGH above 50 up to 75, MEDIUM above 25 up to 50, LOW
\* otherwise, whatever the alert type; so all alerts of a player agree
C2_PriorityFromUsage ==
    \A k \in 1..Len(pa_alerts) :
        pa_alerts[k].alert_priority =
            PriorityOfUsage(UsageOf(IndexOfName(pa_alerts[k].player)))

\* one player at usage exactly 75.0 with two alerts of priority HIGH and an
\* expired player at usage exactly 50.0 with priority MEDIUM
C2_Witness ==
    /\ \E i \in Roster :
        /\ UsageOf(i) = 750
        /\ Cardinality(TypesOf(i)) = 2
        /\ \A k \in 1..Len(pa_alerts) :
            pa_alerts[k].player = team.squad[i].name
                => pa_alerts[k].alert_priority = "HIGH"
    /\ \E k \in 1..Len(pa_alerts) :
        /\ UsageOf(IndexOfName(pa_alerts[k].player)) = 500
        /\ pa_alerts[k].alert_type = "CONTRACT_OR_LOAN_EXPIRED"
        /\ pa_alerts[k].alert_priority = "MEDIUM"

\* C3: after set_alerts a non-expired player has a CONTRACT_ENDING alert if
\* and only if the player is not on loan and the contract end is on or
\* before the as-of date plus the contract-warning window
C3_ContractEnding ==
    (pa_state = "ready" /\ pa_calls >= 1) =>
        \A i \in Roster :
            ~Expired(i) =>
                (CountAlerts(i, "CONTRACT_ENDING") >= 1
                 <=> /\ ~team.squad[i].on_loan
                     /\ ~team.squad[i].contract_end.nat
                     /\ team.squad[i].contract_end.ticks
                            <= cfg.run_date.ticks + cfg.contract_delta)

\* a contract that ends exactly at the end of the window is alerted
C3_Witness ==
    /\ pa_state = "ready" /\ pa_calls >= 1
    /\ \E i \in Roster :
        /\ ~team.squad[i].on_loan
        /\ team.squad[i].contract_end.ticks
                = cfg.run_date.ticks + cfg.contract_delta
        /\ CountAlerts(i, "CONTRACT_ENDING") >= 1

\* the alert types a player on loan is to get, from the loan end, the birth
\* date and the run parameters alone
LoanPlayerTypes(i) ==
    IF Expired(i) THEN {"CONTRACT_OR_LOAN_EXPIRED"}
    ELSE (IF /\ ~team.squad[i].loan_end.nat
             /\ team.squad[i].loan_end.ticks
                    <= cfg.run_date.ticks + cfg.loan_delta
          THEN {"LOAN_ENDING"} ELSE {})
         \cup (IF PastPeak(i) THEN {"PAST_PEAK_AGE"} ELSE {})

\* C4: after set_alerts a non-expired player on loan has a LOAN_ENDING alert
\* if and only if the loan end is on or before the as-of date plus the
\* loan-warning window, and the alerts of a player on loan are determined
\* without the contract end
C4_LoanEnding ==
    (pa_state = "ready" /\ pa_calls >= 1) =>
        \A i \in Roster :
            team.squad[i].on_loan => TypesOf(i) = LoanPlayerTypes(i)

\* a loan inside its window is alerted while the contract end of the same
\* player is long past
C4_Witness ==
    /\ pa_state = "ready" /\ pa_calls >= 1
    /\ \E i \in Roster :
        /\ team.squad[i].on_loan
        /\ team.squad[i].contract_end = D1990
        /\ team.squad[i].loan_end.ticks
                = cfg.run_date.ticks + cfg.loan_delta
        /\ "LOAN_ENDING" \in TypesOf(i)
        /\ "CONTRACT_OR_LOAN_EXPIRED" \notin TypesOf(i)

\* C5: after set_alerts a non-expired player has a PAST_PEAK_AGE alert if
\* and only if the whole days between birth date and as-of date, divided by
\* 365.25, exceed the peak-age cutoff, whatever the contract and loan state
C5_PastPeakAge ==
    (pa_state = "ready" /\ pa_calls >= 1) =>
        \A i \in Roster :
            ~Expired(i) =>
                (CountAlerts(i, "PAST_PEAK_AGE") >= 1 <=> PastPeak(i))

\* a player exactly at the cutoff, half a day into the next day, without the
\* alert, next to a player one day older with it
C5_Witness ==
    /\ pa_state = "ready" /\ pa_calls >= 1
    /\ cfg.run_date = DRunNoon
    /\ \E i \in Roster :
        /\ ~Expired(i)
        /\ WholeDays(i) * 100 * 100 = cfg.peak_age_limit * 36525
        /\ CountAlerts(i, "PAST_PEAK_AGE") = 0
    /\ \E i \in Roster :
        /\ ~Expired(i) /\ CountAlerts(i, "PAST_PEAK_AGE") >= 1

\* C6: the runs of PlayerAlerts on one team with one set of parameters give
\* the same alert sequence
C6_RerunSameAlerts ==
    \A a, b \in 1..Len(pa_results) : pa_results[a] = pa_results[b]

\* two runs read the clock in different months and both report alerts
C6_Witness ==
    /\ Len(pa_results) = 2
    /\ Len(pa_results[2]) >= 2
    /\ now = DNextMonth
    /\ \E i \in 1..Len(pa_squad) :
        pa_squad[i].months_left
            # MonthsLeft(pa_squad[i].contract_end, DRunNoon)


\* the usage the claim gives roster player i, in tenths of a percent at the
\* resolution of the usage column: the minutes of a player without a
\* participation fact count as 0
ClaimedUsage(i) ==
    LET total == TotalMinutes(team.match_team_players,
                              team.squad[i].player_id)
    IN  RoundHalfEven((IF IsNaN(total) THEN 0 ELSE total) * 1000,
                      AvailableMinutes(team))

\* C12: every roster player that is not expired has exactly one row in the
\* usage table, with usage 100 * total minutes / available minutes, which is
\* the number 0 for a player without a participation fact
C12_UsageOfEveryPlayer ==
    pa_state = "ready" =>
        \A i \in Roster :
            ~Expired(i) =>
                /\ Cardinality({r \in 1..Len(pa_squad) :
                        pa_squad[r].player_id = team.squad[i].player_id}) = 1
                /\ \A r \in 1..Len(pa_squad) :
                        pa_squad[r].player_id = team.squad[i].player_id
                            => pa_squad[r].usage = ClaimedUsage(i)

\* C13: months-left of a player is the calendar months from the as-of date
\* of the run to the operative expiry date, (expiry.year * 12 + expiry.month)
\* - (as-of.year * 12 + as-of.month), and null when there is no expiry date
C13_MonthsLeftFromAsOf ==
    pa_state = "ready" =>
        \A r \in 1..Len(pa_squad) :
            LET x == OperativeExpiry(IndexOfName(pa_squad[r].name))
            IN  pa_squad[r].months_left =
                    (IF x.nat THEN <<>>
                     ELSE <<(x.year * 12 + x.month)
                            - (cfg.run_date.year * 12 + cfg.run_date.month)>>)

\* C14: constructing PlayerAlerts completes for every team, also for one
\* without transfers, without matches or without participation facts
C14_NoFailureOnEmpty ==
    pa_run >= 1 => pa_state = "ready"

\* the transfers of roster player i that are inbound to the team and are
\* not loan-returns, as places in the transfer history
Qualifying(i) ==
    {k \in 1..Len(team.transfers) :
        /\ team.transfers[k].player_id = team.squad[i].player_id
        /\ team.transfers[k].to_team_id = team.team_id
        /\ ~team.transfers[k].is_end_loan}

\* the most recent qualifying transfer, the first listed of those that share
\* the latest date
Acquisition(i) ==
    CHOOSE k \in Qualifying(i) :
        \A l \in Qualifying(i) :
            \/ team.transfers[l].transfer_date < team.transfers[k].transfer_date
            \/ /\ team.transfers[l].transfer_date
                    = team.transfers[k].transfer_date
               /\ k <= l

RowsOf(i) ==
    {r \in 1..Len(pa_squad) : pa_squad[r].player_id = team.squad[i].player_id}

\* C21: paid fee, academy flag and starting market value of a player are
\* those of the player's most recent transfer that is inbound to the team
\* and not a loan-return, never those of an outbound transfer or loan-return;
\* of several on the latest date the first after the descending-date sort
\* counts; without a qualifying transfer the fee is 0 and the flag false
C21_AcquisitionFromLatestInbound ==
    pa_state = "ready" =>
        \A i \in Roster : \A r \in RowsOf(i) :
            IF Qualifying(i) = {}
            THEN /\ pa_squad[r].paid_fee = 0
                 /\ pa_squad[r].academy_player = FALSE
            ELSE LET t == team.transfers[Acquisition(i)]
                 IN  /\ pa_squad[r].paid_fee = FillNa(t.fee, 0)
                     /\ pa_squad[r].academy_player = t.is_internal
                     /\ pa_squad[r].starting_market_value
                            = FillNa(t.market_value, 0)

\* a player whose two arrivals share the latest date, followed by a sale,
\* has the fee of the first of them, next to a player with an arrival of
\* his own
C21_Witness ==
    /\ pa_state = "ready"
    /\ Cardinality(Qualifying(1)) = 2
    /\ \E k \in 1..Len(team.transfers) :
        /\ team.transfers[k].to_team_id # team.team_id
        /\ team.transfers[k].transfer_date
            > team.transfers[Acquisition(1)].transfer_date
    /\ \E r \in RowsOf(1) : pa_squad[r].paid_fee = 500000
    /\ \E r \in RowsOf(2) : pa_squad[r].paid_fee = 1999

\* a monetary figure that is present and a multiple of 1000
Thousands(x) == ~IsNaN(x) /\ x % 1000 = 0

\* the roster player of a squad row
PlayerOfRow(r) ==
    CHOOSE i \in Roster : team.squad[i].player_id = pa_squad[r].player_id

\* C22: after normalization the acquisition fee, market value, value
\* estimate, value-estimate delta and value added of every player are
\* multiples of 1000, the raw figures rounded down, and a missing figure is 0
C22_MoneyFlooredToThousands ==
    pa_state = "ready" =>
        \A r \in 1..Len(pa_squad) :
            LET row == pa_squad[r]
                p == team.squad[PlayerOfRow(r)]
            IN  /\ Thousands(row.paid_fee)
                /\ Thousands(row.market_value)
                /\ Thousands(row.etv_current)
                /\ Thousands(row.etv_dev)
                /\ Thousands(row.value_added)
                /\ row.market_value = Floor1000(FillNa(p.market_value, 0))
                /\ row.etv_current = Floor1000(FillNa(p.etv_current, 0))
                /\ row.etv_dev = Floor1000(FillNa(p.etv_dev, 0))

\* the part of it that holds: the value estimate, its delta and the revenue
\* on the value estimate are floored to thousands
C22_EstimatesFloored ==
    pa_state = "ready" =>
        \A r \in 1..Len(pa_squad) :
            LET row == pa_squad[r]
                p == team.squad[PlayerOfRow(r)]
            IN  /\ Thousands(row.etv_current)
                /\ Thousands(row.etv_dev)
                /\ Thousands(row.etv_revenue)
                /\ row.etv_current = Floor1000(p.etv_current)
                /\ row.etv_dev = Floor1000(p.etv_dev)

\* C23: in the match attributes goals conceded are the goals of the
\* opponent, so a match with more goals than the opponent counts as won
\* (3 points), one with fewer as lost (0 points) and only one with equal
\* scores as drawn (1 point)
C23_GoalsConcededAreOpponentGoals ==
    LET matches == PreprocessMatches(team.match_team_attributes)
    IN  \A k \in 1..Len(matches) :
            LET sheet == team.match_sheets[k]
            IN  /\ matches[k].goals_scored = sheet.goals
                /\ matches[k].goals_conceded = sheet.opponent_goals
                /\ matches[k].points
                    = (IF sheet.goals > sheet.opponent_goals THEN 3
                       ELSE IF sheet.goals = sheet.opponent_goals THEN 1
                       ELSE 0)

\* C24: an engine created without an as-of date uses the time of its
\* creation as as-of date, so engines created at different times without an
\* as-of date use different as-of dates
C24_DefaultAsOfIsCreationTime ==
    (pa_state = "ready" /\ ~cfg.run_date_given) => cfg.run_date = now

\* the places of the alerts that name roster player i
AlertsOf(i) ==
    {k \in 1..Len(pa_alerts) : pa_alerts[k].player = team.squad[i].name}

AlertTypes ==
    {"CONTRACT_OR_LOAN_EXPIRED", "CONTRACT_ENDING", "LOAN_ENDING",
     "PAST_PEAK_AGE"}

\* C26: in a run (the constructor and one set_alerts call) no player has
\* both CONTRACT_ENDING and LOAN_ENDING, a player with an expired alert has
\* that alert alone, any other player has at most two alerts, and no alert
\* type occurs twice for a player
C26_AlertsPerPlayer ==
    (pa_state = "ready" /\ pa_calls <= 1) =>
        \A i \in Roster :
            /\ ~({"CONTRACT_ENDING", "LOAN_ENDING"} \subseteq TypesOf(i))
            /\ "CONTRACT_OR_LOAN_EXPIRED" \in TypesOf(i)
                => Cardinality(AlertsOf(i)) = 1
            /\ Cardinality(AlertsOf(i)) <= 2
            /\ \A type \in AlertTypes : CountAlerts(i, type) <= 1

\* a player on loan whose loan end, which the squad row also carries as
\* contract end, lies inside the loan window and the contract window has
\* LOAN_ENDING and PAST_PEAK_AGE and nothing else
C26_Witness ==
    /\ pa_state = "ready" /\ pa_calls = 1
    /\ \E i \in Roster :
        /\ team.squad[i].on_loan
        /\ ~Expired(i)
        /\ team.squad[i].loan_end.ticks
                <= cfg.run_date.ticks + cfg.loan_delta
        /\ team.squad[i].loan_end.ticks
                <= cfg.run_date.ticks + cfg.contract_delta
        /\ \E r \in RowsOf(i) :
                pa_squad[r].contract_end = team.squad[i].loan_end
        /\ TypesOf(i) = {"LOAN_ENDING", "PAST_PEAK_AGE"}
        /\ Cardinality(AlertsOf(i)) = 2

\* roster player i played in every match of the team, as long as the
\* longest playing team mate
PlayedEveryMinute(i) ==
    \A k \in 1..Len(team.match_sheets) :
        \E f \in 1..Len(team.match_team_players) :
            /\ team.match_team_players[f].match_id = team.match_sheets[k].id
            /\ team.match_team_players[f].player_id
                    = team.squad[i].player_id
            /\ team.match_team_players[f].minutes_played
                    = team.match_team_attributes[k].match_duration

\* C28: with at most one participation fact per player and match and
\* minutes that are not negative, the usage of every player lies between 0
\* and 100, and a player who played the maximum minutes in every match of
\* the team has usage 100 (usage in tenths of a percent)
C28_UsageWithinBounds ==
    pa_state = "ready" =>
        \A r \in 1..Len(pa_squad) :
            /\ pa_squad[r].usage \in 0..1000
            /\ PlayedEveryMinute(PlayerOfRow(r)) => pa_squad[r].usage = 1000

\* the same for the players with a participation fact
C28_UsageOfParticipants ==
    pa_state = "ready" =>
        \A r \in 1..Len(pa_squad) :
            ~IsNaN(pa_squad[r].total_minutes) =>
                /\ pa_squad[r].usage \in 0..1000
                /\ PlayedEveryMinute(PlayerOfRow(r))
                    => pa_squad[r].usage = 1000

\* place of an alert type in the claimed order of the list
TypePlace(type) ==
    CASE type = "CONTRACT_OR_LOAN_EXPIRED" -> 0
      [] type = "CONTRACT_ENDING" -> 1
      [] type = "LOAN_ENDING" -> 2
      [] type = "PAST_PEAK_AGE" -> 3

\* alert a stands before alert b in the claimed order: expired alerts before
\* rule alerts, then descending usage with the usage of a player without a
\* participation fact counted as 0, then roster order, then the type order
ClaimedBefore(a, b) ==
    LET pa == IF TypePlace(a.alert_type) = 0 THEN 0 ELSE 1
        pb == IF TypePlace(b.alert_type) = 0 THEN 0 ELSE 1
        ia == IndexOfName(a.player)
        ib == IndexOfName(b.player)
        ua == ClaimedUsage(ia)
        ub == ClaimedUsage(ib)
    IN  \/ pa < pb
        \/ pa = pb /\ ua > ub
        \/ pa = pb /\ ua = ub /\ ia < ib
        \/ pa = pb /\ ia = ib
            /\ TypePlace(a.alert_type) < TypePlace(b.alert_type)

\* C18: the alert list of a run (the constructor and one set_alerts call) is
\* in the fixed order: the CONTRACT_OR_LOAN_EXPIRED alerts first, then the
\* rule alerts; in each part the players by descending usage, players of
\* equal usage in roster order; the rule alerts of a player consecutive, in
\* the order CONTRACT_ENDING, LOAN_ENDING, PAST_PEAK_AGE
C18_AlertListOrder ==
    (pa_state = "ready" /\ pa_calls <= 1) =>
        \A k, l \in 1..Len(pa_alerts) :
            k < l => ClaimedBefore(pa_alerts[k], pa_alerts[l])

\* the same order by the usage column of the code, in which a player without
\* a participation fact stands after every player with one
UsageColumnBefore(a, b) ==
    LET pa == IF TypePlace(a.alert_type) = 0 THEN 0 ELSE 1
        pb == IF TypePlace(b.alert_type) = 0 THEN 0 ELSE 1
        ia == IndexOfName(a.player)
        ib == IndexOfName(b.player)
        ua == UsageOf(ia)
        ub == UsageOf(ib)
    IN  \/ pa < pb
        \/ pa = pb /\ ua > ub
        \/ pa = pb /\ ua = ub /\ ia < ib
        \/ pa = pb /\ ia = ib
            /\ TypePlace(a.alert_type) < TypePlace(b.alert_type)

C18_OrderByUsageColumn ==
    (pa_state = "ready" /\ pa_calls <= 1) =>
        \A k, l \in 1..Len(pa_alerts) :
            k < l => UsageColumnBefore(pa_alerts[k], pa_alerts[l])

\* set_alerts leaves the alerts already in the list in place
C18_AlertsKept ==
    [][\A k \in 1..Len(pa_alerts) :
            (pa_state = "ready" /\ pa_state' = "ready" /\ pa_run' = pa_run)
                => /\ k <= Len(pa_alerts')
                   /\ pa_alerts'[k] = pa_alerts[k]]_vars


\* the ten position strings of the Player Alert Engine with their Position
PlayerPositions ==
    <<<<"Goalkeeper", "GOALKEEPER">>, <<"CentreBack", "CENTRE_BACK">>,
      <<"LeftBack", "LEFT_BACK">>, <<"RightBack", "RIGHT_BACK">>,
      <<"DefensiveMidfield", "DEFENSIVE_MIDFIELDER">>,
      <<"CentreMidfield", "CENTRE_MIDFIELDER">>,
      <<"AttackingMidfield", "ATTACKING_MIDFIELDER">>,
      <<"RightWing", "RIGHT_WING">>, <<"LeftWing", "LEFT_WING">>,
      <<"CentreForward", "CENTRE_FORWARD">>>>

\* strings outside the ten, among them the ones the rosters carry
OtherPositionStrings ==
    {"", "CentralMidfield", "Left back", "goalkeeper", "OTHER", "Sweeper"}

\* the Position the claim gives a position string
ClaimedPosition(str) ==
    IF \E k \in 1..Len(PlayerPositions) : PlayerPositions[k][1] = str
    THEN PlayerPositions[CHOOSE k \in 1..Len(PlayerPositions) :
                            PlayerPositions[k][1] = str][2]
    ELSE "OTHER"

\* C15: the position mapping of the Player Alert Engine sends the ten
\* position strings to ten distinct Positions and every other string to
\* OTHER, and every player alert carries the Position of the first position
\* of its player
C15_PositionMappingTotal ==
    /\ \A k \in 1..Len(PlayerPositions) :
            PlayerMapGroup(PlayerPositions[k][1]) = PlayerPositions[k][2]
    /\ \A j, k \in 1..Len(PlayerPositions) :
            j # k => PlayerPositions[j][2] # PlayerPositions[k][2]
    /\ \A str \in OtherPositionStrings : PlayerMapGroup(str) = "OTHER"
    /\ \A a \in 1..Len(pa_alerts) :
            pa_alerts[a].position =
                ClaimedPosition(
                    team.squad[IndexOfName(pa_alerts[a].player)].first_position)

\* an alert of a player whose first position is a string the engine does
\* not know and the expired alert of a player with a string it knows
C15_Witness ==
    /\ \E a \in 1..Len(pa_alerts) :
        /\ team.squad[IndexOfName(pa_alerts[a].player)].first_position
                = "CentralMidfield"
        /\ pa_alerts[a].position = "OTHER"
    /\ \E a \in 1..Len(pa_alerts) :
        /\ team.squad[IndexOfName(pa_alerts[a].player)].first_position
                = "CentreMidfield"
        /\ pa_alerts[a].position = "CENTRE_MIDFIELDER"
        /\ pa_alerts[a].alert_type = "CONTRACT_OR_LOAN_EXPIRED"

----------------------------------------------------------------------------
(* PositionAlerts : operations *)

InitPosition ==
    /\ \/ \E n \in 1..MaxPositionSquad :
            \E prs \in [1..n -> PositionProfiles] :
                team = TeamOf(prs, 1, TransferLists1)
       \/ \E pr \in LeftBacks : team = TeamOf(<<pr>>, 0, TransferLists1)
    /\ EnginesIdle

\* PositionAlerts.__init__
NewPositionAlerts ==
    /\ po_state = "none"
    /\ IF PositionPreprocessFails(team)
       THEN /\ po_state' = "error"
            /\ UNCHANGED <<po_squad, po_alerts, po_benchmarks>>
       ELSE /\ po_state' = "ready"
            /\ po_squad' = PositionPreprocess(team)
            /\ po_alerts' = <<>>
            /\ po_benchmarks' = <<>>
    /\ UNCHANGED <<team, now, po_groups, po_calls>>
    /\ UNCHANGED pa_vars
    /\ UNCHANGED co_vars
    /\ UNCHANGED sp_vars

\* set_alerts on an instance with the given _benchmarks and alerts: the new
\* _benchmarks, the returned df_groups and the new alerts
PositionSetAlertsResult(squad, benchmarks0, alerts0) ==
    LET benchmarks == benchmarks0 \o AggregateGroups(squad)
        df_groups == GetSetAlerts(benchmarks)
    IN  [benchmarks |-> benchmarks,
         df_groups |-> df_groups,
         alerts |-> alerts0 \o
            ConcatAll(AsSeq([i \in 1..Len(df_groups) |->
                                SetPositionAlerts(df_groups[i])]))]

\* PositionAlerts.set_alerts
PositionSetAlerts ==
    /\ po_state = "ready"
    /\ po_calls < MaxCalls
    /\ \E res \in {PositionSetAlertsResult(po_squad, po_benchmarks,
                                           po_alerts)} :
        /\ po_benchmarks' = res.benchmarks
        /\ po_groups' = res.df_groups
        /\ po_alerts' = res.alerts
    /\ po_calls' = po_calls + 1
    /\ UNCHANGED <<team, now, po_state, po_squad>>
    /\ UNCHANGED pa_vars
    /\ UNCHANGED co_vars
    /\ UNCHANGED sp_vars

NextPosition ==
    \/ NewPositionAlerts
    \/ PositionSetAlerts

SpecPosition == InitPosition /\ [][NextPosition]_vars

----------------------------------------------------------------------------
(* Properties of PositionAlerts *)

\* the roster players with the k-th position group among their positions
Members(k) ==
    {i \in Roster :
        \/ team.squad[i].first_position = PositionGroups[k]
        \/ team.squad[i].second_position = PositionGroups[k]
        \/ team.squad[i].third_position = PositionGroups[k]}

GroupPosition(k) == PositionMapGroup(PositionGroups[k])

GroupIndex(position) ==
    CHOOSE k \in 1..Len(PositionGroups) : GroupPosition(k) = position

CountPositionAlerts(type, position) ==
    Cardinality({a \in 1..Len(po_alerts) :
                    /\ po_alerts[a].alert_type = type
                    /\ po_alerts[a].position = position})

FirstRun == po_state = "ready" /\ po_calls = 1

Tiers == <<"starter", "back_up", "secondary_back_up">>

LevelRank(g, t) ==
    CASE t = 1 -> g.starter_level_rank
      [] t = 2 -> g.back_up_level_rank
      [] t = 3 -> g.secondary_back_up_level_rank

PotentialRank(g, t) ==
    CASE t = 1 -> g.starter_potential_rank
      [] t = 2 -> g.back_up_potential_rank
      [] t = 3 -> g.secondary_back_up_potential_rank

WeakType(t) ==
    CASE t = 1 -> "WEAK_SPOT_STARTER"
      [] t = 2 -> "WEAK_SPOT_BACK_UP"
      [] t = 3 -> "WEAK_SPOT_SECONDARY"

WeakPriority(t) ==
    CASE t = 1 -> "HIGH"
      [] t = 2 -> "MEDIUM"
      [] t = 3 -> "LOW"

\* C8: in a run, for every group and tier, the weak-spot alert of the tier
\* is emitted (once, with the priority of the tier) if and only if the
\* group has rank 8, 9 or 10 of ten on the skill and on the potential of
\* that tier
C8_WeakSpotIffBothBottom ==
    FirstRun =>
        /\ Len(po_groups) = 10
        /\ \A i \in 1..Len(po_groups), t \in 1..3 :
            LET g == po_groups[i]
                hits == {a \in 1..Len(po_alerts) :
                            /\ po_alerts[a].alert_type = WeakType(t)
                            /\ po_alerts[a].position = g.group}
            IN  /\ Cardinality(hits)
                    = (IF LevelRank(g, t) > 7 /\ PotentialRank(g, t) > 7
                       THEN 1 ELSE 0)
                /\ \A a \in hits :
                    /\ po_alerts[a].alert_priority = WeakPriority(t)
                    /\ po_alerts[a].player = NoPlayer

\* a group in the bottom three on both ranks of the starter tier has the
\* alert, while a group with players that is in the bottom three on skill
\* only and one that is there on potential only have none
C8_Witness ==
    /\ FirstRun
    /\ \E i \in 1..Len(po_groups) :
        /\ LevelRank(po_groups[i], 1) > 7
        /\ PotentialRank(po_groups[i], 1) > 7
        /\ CountPositionAlerts("WEAK_SPOT_STARTER", po_groups[i].group) = 1
    /\ \E i \in 1..Len(po_groups) :
        /\ po_groups[i].starter_level > 0
        /\ LevelRank(po_groups[i], 1) > 7
        /\ PotentialRank(po_groups[i], 1) <= 7
        /\ CountPositionAlerts("WEAK_SPOT_STARTER", po_groups[i].group) = 0
    /\ \E i \in 1..Len(po_groups) :
        /\ po_groups[i].starter_level > 0
        /\ LevelRank(po_groups[i], 1) <= 7
        /\ PotentialRank(po_groups[i], 1) > 7
        /\ CountPositionAlerts("WEAK_SPOT_STARTER", po_groups[i].group) = 0

TierLevel(b, t) ==
    CASE t = 1 -> b.starter_level
      [] t = 2 -> b.back_up_level
      [] t = 3 -> b.secondary_back_up_level

TierPotential(b, t) ==
    CASE t = 1 -> b.starter_potential
      [] t = 2 -> b.back_up_potential
      [] t = 3 -> b.secondary_back_up_potential

\* b holds the three best members of M by skill, with their own potential,
\* and zeros in the tiers M cannot fill
IsBenchmarkOf(b, M) ==
    LET n == IF Cardinality(M) < 3 THEN Cardinality(M) ELSE 3
    IN  /\ \E f \in [1..n -> M] :
            /\ \A s, t \in 1..n : s # t => f[s] # f[t]
            /\ \A t \in 1..n :
                /\ TierLevel(b, t) = team.squad[f[t]].sciskill
                /\ TierPotential(b, t) = team.squad[f[t]].potential
            /\ \A s, t \in 1..n :
                s < t => team.squad[f[s]].sciskill >= team.squad[f[t]].sciskill
            /\ \A i \in M :
                (\A t \in 1..n : f[t] # i)
                    => team.squad[i].sciskill <= team.squad[f[n]].sciskill
        /\ \A t \in (n + 1)..3 :
            TierLevel(b, t) = 0 /\ TierPotential(b, t) = 0

\* C9: the benchmark row of each of the ten positions is computed on the
\* players with that position as first, second or third position: the three
\* tiers hold the highest, second and third skill, each with the potential
\* of the same player, and a tier without a player holds 0 and 0
C9_BenchmarksOfMembers ==
    FirstRun =>
        /\ Len(po_benchmarks) = Len(PositionGroups)
        /\ \A k \in 1..Len(PositionGroups) :
            /\ po_benchmarks[k].group = GroupPosition(k)
            /\ IsBenchmarkOf(po_benchmarks[k], Members(k))

\* three left backs with skills 80, 60 and 40, one of them a left back by
\* third position only, and a group with a single member
C9_Witness ==
    /\ FirstRun
    /\ \E k \in 1..Len(PositionGroups) :
        /\ po_benchmarks[k].starter_level = 80
        /\ po_benchmarks[k].back_up_level = 60
        /\ po_benchmarks[k].secondary_back_up_level = 40
        /\ \E i \in Members(k) :
            team.squad[i].third_position = PositionGroups[k]
    /\ \E k \in 1..Len(PositionGroups) :
        /\ Cardinality(Members(k)) = 1
        /\ po_benchmarks[k].starter_level > 0
        /\ po_benchmarks[k].back_up_level = 0

MetricValue(g, m) ==
    CASE m = 1 -> g.starter_level
      [] m = 2 -> g.back_up_level
      [] m = 3 -> g.secondary_back_up_level
      [] m = 4 -> g.starter_potential
      [] m = 5 -> g.back_up_potential
      [] m = 6 -> g.secondary_back_up_potential

MetricRank(g, m) ==
    CASE m = 1 -> g.starter_level_rank
      [] m = 2 -> g.back_up_level_rank
      [] m = 3 -> g.secondary_back_up_level_rank
      [] m = 4 -> g.starter_potential_rank
      [] m = 5 -> g.back_up_potential_rank
      [] m = 6 -> g.secondary_back_up_potential_rank

\* C10: in a run, on each of the six metrics the rank of a group is one more
\* than the number of groups with a higher value plus the number of groups
\* with the same value that come earlier in the order Goalkeeper, ...,
\* CentreForward
C10_RanksTieInGroupOrder ==
    FirstRun =>
        \A i \in 1..Len(po_groups), m \in 1..6 :
            LET g == po_groups[i]
            IN  MetricRank(g, m) = 1 + Cardinality(
                    {j \in 1..Len(po_groups) :
                        \/ MetricValue(po_groups[j], m) > MetricValue(g, m)
                        \/ /\ MetricValue(po_groups[j], m) = MetricValue(g, m)
                           /\ GroupIndex(po_groups[j].group)
                                < GroupIndex(g.group)})

\* the six rank computations applied to the table set_alerts returned
RanksAgain(df_groups) == GetSetGroupKpis(df_groups)

\* C11: feeding the table returned by a run back through the six rank
\* computations gives every group, on every metric, the rank it had
C11_RankRoundTrip ==
    FirstRun =>
        \E again \in {RanksAgain(po_groups)} :
            \A i, j \in 1..Len(po_groups) :
                again[i].group = po_groups[j].group =>
                    \A m \in 1..6 :
                        MetricRank(again[i], m) = MetricRank(po_groups[j], m)

\* the players of a position group, with or without secondary positions
GroupIds(k, include_secondary_positions) ==
    LET df == GetPositionGroup(po_squad, GroupPosition(k),
                               include_secondary_positions)
    IN  {df[r].player_id : r \in 1..Len(df)}

\* C16: every position group computed without secondary positions is a
\* subset of the group computed with them, it holds one row per player, and
\* summed over the ten groups the sizes without secondary positions do not
\* exceed the sizes with them
C16_PrimaryGroupsWithinFullGroups ==
    po_state = "ready" =>
        /\ \A k \in 1..Len(PositionGroups) :
            /\ GroupIds(k, FALSE) \subseteq GroupIds(k, TRUE)
            /\ Len(GetPositionGroup(po_squad, GroupPosition(k), FALSE))
                    = Cardinality(GroupIds(k, FALSE))
            /\ Len(GetPositionGroup(po_squad, GroupPosition(k), TRUE))
                    = Cardinality(GroupIds(k, TRUE))
        /\ SumSeq(AsSeq([k \in 1..Len(PositionGroups) |->
                    Cardinality(GroupIds(k, FALSE))]))
            <= SumSeq(AsSeq([k \in 1..Len(PositionGroups) |->
                    Cardinality(GroupIds(k, TRUE))]))

\* a group that grows with the secondary positions next to one that has the
\* same players either way, after a run on these groups
C16_Witness ==
    /\ FirstRun
    /\ \E k \in 1..Len(PositionGroups) :
        /\ GroupIds(k, FALSE) # {}
        /\ GroupIds(k, FALSE) # GroupIds(k, TRUE)
    /\ \E k \in 1..Len(PositionGroups) :
        /\ GroupIds(k, FALSE) # {}
        /\ GroupIds(k, FALSE) = GroupIds(k, TRUE)

\* the row of the k-th position group in the table set_alerts returned
GroupRow(k) ==
    po_groups[CHOOSE r \in 1..Len(po_groups) :
                po_groups[r].group = GroupPosition(k)]

\* the members of the k-th group with a skill above 0
Skilled(k) == {i \in Members(k) : team.squad[i].sciskill > 0}

\* C19: in a run a position group has one LACK_OF_DEPTH alert, of priority
\* MEDIUM whatever the usage of its players, when its starter, back-up or
\* secondary back-up skill value is 0, which is when fewer than three of its
\* players have a skill above 0, and no such alert otherwise
C19_DepthAlertIffZeroSkill ==
    FirstRun =>
        /\ \A k \in 1..Len(PositionGroups) :
            /\ CountPositionAlerts("LACK_OF_DEPTH", GroupPosition(k))
                = (IF \/ GroupRow(k).starter_level = 0
                      \/ GroupRow(k).back_up_level = 0
                      \/ GroupRow(k).secondary_back_up_level = 0
                   THEN 1 ELSE 0)
            /\ CountPositionAlerts("LACK_OF_DEPTH", GroupPosition(k))
                = (IF Cardinality(Skilled(k)) < 3 THEN 1 ELSE 0)
        /\ \A a \in 1..Len(po_alerts) :
            po_alerts[a].alert_type = "LACK_OF_DEPTH"
                => po_alerts[a].alert_priority = "MEDIUM"

\* a group of three players, one of them with skill 0 and players of
\* different usage, has the alert, in a run where a group of two has it too
C19_Witness ==
    /\ FirstRun
    /\ \E k \in 1..Len(PositionGroups) :
        /\ Cardinality(Members(k)) = 3
        /\ Cardinality(Skilled(k)) = 2
        /\ \E i, j \in Members(k) : UsageOf(i) # UsageOf(j)
        /\ CountPositionAlerts("LACK_OF_DEPTH", GroupPosition(k)) = 1
    /\ \E k \in 1..Len(PositionGroups) :
        /\ Cardinality(Members(k)) = 2
        /\ Cardinality(Skilled(k)) = 2
        /\ CountPositionAlerts("LACK_OF_DEPTH", GroupPosition(k)) = 1

RankColumns ==
    {"starter_level_rank", "back_up_level_rank",
     "secondary_back_up_level_rank", "starter_potential_rank",
     "back_up_potential_rank", "secondary_back_up_potential_rank"}

\* the table has one row per position group and, in each of the six rank
\* columns, the ranks 1..10 once each
TenGroupPopulation(df_groups) ==
    /\ Len(df_groups) = Len(PositionGroups)
    /\ \A k \in 1..Len(PositionGroups) :
        Cardinality({r \in 1..Len(df_groups) :
                        df_groups[r].group = GroupPosition(k)}) = 1
    /\ \A col \in RankColumns :
        {df_groups[r][col] : r \in 1..Len(df_groups)}
            = 1..Len(PositionGroups)

\* C20: after every set_alerts call of a PositionAlerts instance, the first
\* and the later ones, the benchmark table holds one row per position group
\* and the ranks of each of the six metrics are a permutation of 1..10
C20_CurrentRunPopulation ==
    (po_state = "ready" /\ po_calls >= 1) => TenGroupPopulation(po_groups)

\* the position strings of the provider, of the two mappings, and others
PositionStrings ==
    {PlayerPositions[k][1] : k \in 1..Len(PlayerPositions)}
    \cup {PositionGroups[k] : k \in 1..Len(PositionGroups)}
    \cup OtherPositionStrings

\* C25: the two engines agree on the position taxonomy: both map every
\* position string to the same Position, and a player whose first position
\* the Player Alert Engine maps to one of the ten positions is a member of
\* the group of that position in the Position Benchmark Engine
C25_EnginesAgreeOnPositions ==
    /\ \A str \in PositionStrings :
        PlayerMapGroup(str) = PositionMapGroup(str)
    /\ po_state = "ready" =>
        \A r \in 1..Len(po_squad) :
            LET position == PlayerMapGroup(po_squad[r].first_position)
                group == GetPositionGroup(po_squad, position, TRUE)
            IN  position # "OTHER" =>
                    \E g \in 1..Len(group) :
                        group[g].player_id = po_squad[r].player_id

\* the second part on its own
C25_MappedPlayerIsGroupMember ==
    po_state = "ready" =>
        \A r \in 1..Len(po_squad) :
            LET position == PlayerMapGroup(po_squad[r].first_position)
                group == GetPositionGroup(po_squad, position, TRUE)
            IN  position # "OTHER" =>
                    \E g \in 1..Len(group) :
                        group[g].player_id = po_squad[r].player_id

\* the six benchmark values of a row of the table
SixValues(g) ==
    <<g.starter_level, g.starter_potential, g.back_up_level,
      g.back_up_potential, g.secondary_back_up_level,
      g.secondary_back_up_potential>>

WeakAlerts(g) ==
    <<g.weak_starter_alert, g.weak_back_up_alert,
      g.weak_secondary_back_up_alert>>

\* C27: two position groups with the same six benchmark values receive the
\* same weak-spot alerts in a run, whatever the row order of the groups
C27_SameValuesSameAlerts ==
    FirstRun =>
        \A i, j \in 1..Len(po_groups) :
            SixValues(po_groups[i]) = SixValues(po_groups[j])
                => WeakAlerts(po_groups[i]) = WeakAlerts(po_groups[j])

\* the number of groups with a lower, and with a lower or the same, skill and
\* potential on tier t than group g
LowerLevel(g, t) ==
    Cardinality({i \in 1..Len(po_groups) :
                    TierLevel(po_groups[i], t) < TierLevel(g, t)})

LowerPotential(g, t) ==
    Cardinality({i \in 1..Len(po_groups) :
                    TierPotential(po_groups[i], t) < TierPotential(g, t)})

NotHigherLevel(g, t) ==
    Cardinality({i \in 1..Len(po_groups) :
                    TierLevel(po_groups[i], t) <= TierLevel(g, t)})

NotHigherPotential(g, t) ==
    Cardinality({i \in 1..Len(po_groups) :
                    TierPotential(po_groups[i], t) <= TierPotential(g, t)})

\* the benchmark values decide the weak-spot alert of a tier in two cases:
\* three or more groups lower on the skill or on the potential, no alert; at
\* most three groups, the group itself counted, not higher on the skill and
\* at most three not higher on the potential, alert. Groups with the same
\* values then receive the same alert; in the remaining cases the row order
\* of the tied groups decides
C27_AlertsDecidedByValues ==
    FirstRun =>
        \A i \in 1..Len(po_groups), t \in 1..3 :
            LET g == po_groups[i]
            IN  /\ (LowerLevel(g, t) >= 3 \/ LowerPotential(g, t) >= 3)
                    => ~WeakAlerts(g)[t]
                /\ (NotHigherLevel(g, t) <= 3 /\ NotHigherPotential(g, t) <= 3)
                    => WeakAlerts(g)[t]

\* the values decide for the starter alert of one group and against that of
\* two groups with the same values, one of them in the bottom three on skill
C27_Witness ==
    /\ FirstRun
    /\ \E i \in 1..Len(po_groups) :
        /\ NotHigherLevel(po_groups[i], 1) <= 3
        /\ NotHigherPotential(po_groups[i], 1) <= 3
        /\ po_groups[i].weak_starter_alert
    /\ \E i, j \in 1..Len(po_groups) :
        /\ i # j
        /\ SixValues(po_groups[i]) = SixValues(po_groups[j])
        /\ LowerPotential(po_groups[i], 1) >= 3
        /\ LevelRank(po_groups[i], 1) > 7
        /\ ~po_groups[i].weak_starter_alert
        /\ ~po_groups[j].weak_starter_alert

----------------------------------------------------------------------------
(* api/management.py : CollaborationAPI *)

\* bound of the collaboration model: the ids the server hands out
MaxIds == 3

\* the ids of the server, in the order it hands them out
Ids == <<"id1", "id2", "id3", "id4", "id5", "id6">>

\* the void value of get_label and get_shortlist
NoneId == "None"

Request(method, endpoint, id, data) ==
    [method |-> method, endpoint |-> endpoint, id |-> id, data |-> data]

ValueError(what, name) ==
    [type |-> "ValueError", message |-> <<what, name, "does not exist.">>]

\* get_label: the id of the first label the server lists under the name
GetLabel(labels, name) ==
    LET Named(l) == l.name = name
        items == SelectIdx(labels, Named)
    IN  IF Len(items) = 0 THEN NoneId ELSE items[1].id

\* get_shortlist: the id of the first shortlist of the user with the name
GetShortlist(shortlists, name, user_id) ==
    LET Named(l) == l.name = name /\ l.user_id = user_id
        items == SelectIdx(shortlists, Named)
    IN  IF Len(items) = 0 THEN NoneId ELSE items[1].id

\* delete_label(label_name): the labels left and the requests sent
DeleteLabel(labels, label_name) ==
    LET label_id == GetLabel(labels, label_name)
        Other(l) == l.id # label_id
    IN  IF label_id # NoneId
        THEN [labels |-> SelectIdx(labels, Other),
              sent |-> <<Request("DELETE", "v1/Labels/{label_id}",
                                 label_id, <<>>)>>]
        ELSE [labels |-> labels, sent |-> <<>>]

\* add_label(name): delete_label is handed the id get_label returned
AddLabel(labels, next_id, name) ==
    LET existing == GetLabel(labels, name)
        cleared == IF existing # NoneId THEN DeleteLabel(labels, existing)
                   ELSE [labels |-> labels, sent |-> <<>>]
    IN  [labels |-> Append(cleared.labels,
                           [id |-> Ids[next_id], name |-> name]),
         sent |-> Append(cleared.sent,
                         Request("POST", "v1/labels", NoneId, <<name>>))]

\* _validate_response: a status outside the 20x codes raises Exception
StatusError(status) == [type |-> "Exception", message |-> <<status>>]

\* add_label(name) against a server that refuses a second label of a name:
\* the POST is answered with a conflict
AddLabelRefused(labels, name) ==
    LET existing == GetLabel(labels, name)
        cleared == IF existing # NoneId THEN DeleteLabel(labels, existing)
                   ELSE [labels |-> labels, sent |-> <<>>]
    IN  [labels |-> cleared.labels,
         sent |-> Append(cleared.sent,
                         Request("POST", "v1/labels", NoneId, <<name>>)),
         error |-> StatusError("409")]

\* the label is not looked up: the requests go out with the void id
PutPlayerLabelsUnchecked(labels, label_name, players) ==
    [error |-> NoError,
     sent |-> AsSeq([i \in 1..Len(players) |->
                Request("PUT", "v2/Players/{plr}/labels", players[i],
                        <<GetLabel(labels, label_name)>>)])]

\* put_player_labels(label_name, players)
PutPlayerLabels(labels, label_name, players) ==
    LET label_id == GetLabel(labels, label_name)
    IN  IF label_id = NoneId
        THEN [error |-> ValueError("Label", label_name), sent |-> <<>>]
        ELSE [error |-> NoError,
              sent |-> AsSeq([i \in 1..Len(players) |->
                        Request("PUT", "v2/Players/{plr}/labels", players[i],
                                <<label_id>>)])]

\* delete_shortlist(shortlist_id)
DeleteShortlist(shortlists, shortlist_id) ==
    LET Other(l) == l.id # shortlist_id
    IN  [shortlists |-> SelectIdx(shortlists, Other),
         sent |-> <<Request("DELETE", "v1/shortlists/{shortlist_id}",
                            shortlist_id, <<>>)>>]

\* add_shortlist(user_id, shortlist_name)
AddShortlist(shortlists, next_id, user_id, shortlist_name) ==
    LET existing_shortlist == GetShortlist(shortlists, shortlist_name, user_id)
        cleared == IF existing_shortlist # NoneId
                   THEN DeleteShortlist(shortlists, existing_shortlist)
                   ELSE [shortlists |-> shortlists, sent |-> <<>>]
    IN  [shortlists |-> Append(cleared.shortlists,
                               [id |-> Ids[next_id], name |-> shortlist_name,
                                user_id |-> user_id, players |-> {}]),
         sent |-> Append(cleared.sent,
                         Request("POST", "v1/shortlists", NoneId,
                                 <<shortlist_name>>))]

\* the shortlist is not looked up first
AddPlayersToShortlistUnchecked(shortlists, user_id, shortlist_name, players) ==
    [error |-> NoError,
     shortlists |-> shortlists,
     sent |-> <<Request("POST", "v1/shortlists/{shortlist_id}/players",
                        GetShortlist(shortlists, shortlist_name, user_id),
                        players)>>]

\* add_players_to_shortlist(user_id, shortlist_name, players)
AddPlayersToShortlist(shortlists, user_id, shortlist_name, players) ==
    LET shortlist_id == GetShortlist(shortlists, shortlist_name, user_id)
    IN  IF shortlist_id = NoneId
        THEN [error |-> ValueError("Shortlist", shortlist_name),
              shortlists |-> shortlists, sent |-> <<>>]
        ELSE [error |-> NoError,
              shortlists |-> AsSeq([i \in 1..Len(shortlists) |->
                    IF shortlists[i].id = shortlist_id
                    THEN [shortlists[i] EXCEPT !.players =
                            @ \cup {players[k] : k \in 1..Len(players)}]
                    ELSE shortlists[i]]),
              sent |-> <<Request("POST",
                                 "v1/shortlists/{shortlist_id}/players",
                                 shortlist_id, players)>>]

----------------------------------------------------------------------------
(* CollaborationAPI : operations *)

LabelNames == {"scout", "target"}

UserIds == {"u1", "u2"}

PlayerLists == {<<>>, <<1, 2>>}

Call(method, name, user_id, players) ==
    [method |-> method, name |-> name, user_id |-> user_id,
     players |-> players]

InitCollab ==
    /\ team = TeamOf(<<CHOOSE pr \in PlainProfiles : TRUE>>, 1,
                      TransferLists1)
    /\ EnginesIdle

\* add_label; whether the server stores a second label of a name or refuses
\* it is the server's choice
CollabAddLabel ==
    /\ co_next_id <= MaxIds
    /\ \E name \in LabelNames :
        \/ \E res \in {AddLabel(co_labels, co_next_id, name)} :
            /\ co_labels' = res.labels
            /\ co_sent' = res.sent
            /\ co_call' = Call("add_label", name, "", <<>>)
            /\ co_next_id' = co_next_id + 1
            /\ co_error' = NoError
        \/ \E res \in {AddLabelRefused(co_labels, name)} :
            /\ GetLabel(res.labels, name) # NoneId
            /\ co_labels' = res.labels
            /\ co_sent' = res.sent
            /\ co_call' = Call("add_label", name, "", <<>>)
            /\ co_next_id' = co_next_id
            /\ co_error' = res.error
    /\ UNCHANGED <<team, now, co_shortlists>>
    /\ UNCHANGED pa_vars
    /\ UNCHANGED po_vars
    /\ UNCHANGED sp_vars

CollabDeleteLabel ==
    /\ \E name \in LabelNames :
        \E res \in {DeleteLabel(co_labels, name)} :
            /\ co_labels' = res.labels
            /\ co_sent' = res.sent
            /\ co_call' = Call("delete_label", name, "", <<>>)
    /\ co_error' = NoError
    /\ UNCHANGED <<team, now, co_shortlists, co_next_id>>
    /\ UNCHANGED pa_vars
    /\ UNCHANGED po_vars
    /\ UNCHANGED sp_vars

CollabPutPlayerLabels ==
    /\ \E name \in LabelNames, players \in PlayerLists :
        \E res \in {PutPlayerLabels(co_labels, name, players)} :
            /\ co_sent' = res.sent
            /\ co_error' = res.error
            /\ co_call' = Call("put_player_labels", name, "", players)
    /\ UNCHANGED <<team, now, co_labels, co_shortlists, co_next_id>>
    /\ UNCHANGED pa_vars
    /\ UNCHANGED po_vars
    /\ UNCHANGED sp_vars

CollabAddShortlist ==
    /\ co_next_id <= MaxIds
    /\ \E user_id \in UserIds, name \in LabelNames :
        \E res \in {AddShortlist(co_shortlists, co_next_id, user_id, name)} :
            /\ co_shortlists' = res.shortlists
            /\ co_sent' = res.sent
            /\ co_call' = Call("add_shortlist", name, user_id, <<>>)
    /\ co_next_id' = co_next_id + 1
    /\ co_error' = NoError
    /\ UNCHANGED <<team, now, co_labels>>
    /\ UNCHANGED pa_vars
    /\ UNCHANGED po_vars
    /\ UNCHANGED sp_vars

CollabAddPlayersToShortlist ==
    /\ \E user_id \in UserIds, name \in LabelNames, players \in PlayerLists :
        \E res \in {AddPlayersToShortlist(co_shortlists, user_id, name,
                                          players)} :
            /\ co_shortlists' = res.shortlists
            /\ co_sent' = res.sent
            /\ co_error' = res.error
            /\ co_call' = Call("add_players_to_shortlist", name, user_id,
                               players)
    /\ UNCHANGED <<team, now, co_labels, co_next_id>>
    /\ UNCHANGED pa_vars
    /\ UNCHANGED po_vars
    /\ UNCHANGED sp_vars

NextCollab ==
    \/ CollabAddLabel
    \/ CollabDeleteLabel
    \/ CollabPutPlayerLabels
    \/ CollabAddShortlist
    \/ CollabAddPlayersToShortlist

SpecCollab == InitCollab /\ [][NextCollab]_vars

----------------------------------------------------------------------------
(* Properties of CollaborationAPI *)

LabelExists(name) ==
    \E i \in 1..Len(co_labels) : co_labels[i].name = name

ShortlistExists(name, user_id) ==
    \E i \in 1..Len(co_shortlists) :
        /\ co_shortlists[i].name = name
        /\ co_shortlists[i].user_id = user_id

\* C17: put_player_labels for a label name no label has, and
\* add_players_to_shortlist for a shortlist that does not exist, end in an
\* error that names the missing label or shortlist, with no write request
\* sent by the call
C17_MissingTargetIsExplicitError ==
    /\ (co_call.method = "put_player_labels" /\ ~LabelExists(co_call.name))
        => /\ co_error.type = "ValueError"
           /\ \E k \in 1..Len(co_error.message) :
                co_error.message[k] = co_call.name
           /\ co_error.message[1] = "Label"
           /\ co_sent = <<>>
    /\ (co_call.method = "add_players_to_shortlist"
            /\ ~ShortlistExists(co_call.name, co_call.user_id))
        => /\ co_error.type = "ValueError"
           /\ \E k \in 1..Len(co_error.message) :
                co_error.message[k] = co_call.name
           /\ co_error.message[1] = "Shortlist"
           /\ co_sent = <<>>

\* a label assignment to two players fails for a missing label while
\* another label exists
C17_Witness ==
    /\ co_call.method = "put_player_labels"
    /\ Len(co_call.players) = 2
    /\ ~LabelExists(co_call.name)
    /\ co_labels # <<>>
    /\ co_error.type = "ValueError"

LabelsNamed(name) ==
    {i \in 1..Len(co_labels) : co_labels[i].name = name}

\* C29: after add_label(name) has returned without error the account holds
\* one label of that name, whether or not one existed before the call, so
\* add_label calls in a row never leave two labels of one name
C29_OneLabelPerName ==
    (co_call.method = "add_label" /\ co_error = NoError)
        => Cardinality(LabelsNamed(co_call.name)) = 1

\* the label that existed before an add_label call is still there after it:
\* the delete request of add_label is never sent
C29_AddLabelDeletesNothing ==
    [][co_call'.method = "add_label" =>
        /\ \A i \in 1..Len(co_labels) :
            \E j \in 1..Len(co_labels') : co_labels'[j] = co_labels[i]
        /\ \A k \in 1..Len(co_sent') : co_sent'[k].method # "DELETE"]_vars

----------------------------------------------------------------------------
(* planning/scout.py : ScoutingPlanner, api/player_search.py : GuidedSearchAPI *)

MaxTasks == 2

\* _map_positions: the position names of the tasks to those of the search
\* API; "None" stands for the missing value of an unknown name
MapPositions(position) ==
    CASE position = "Goalkeeper" -> "Goalkeeper"
      [] position = "Centre back" -> "CentreBack"
      [] position = "Left back" -> "LeftBack"
      [] position = "Right back" -> "RightBack"
      [] position = "Defensive midfield" -> "DefensiveMidfield"
      [] position = "Centre midfield" -> "CentreMidfield"
      [] position = "Attacking midfield" -> "AttackingMidfield"
      [] position = "Centre forward" -> "CentreForward"
      [] position = "Left wing" -> "LeftWing"
      [] position = "Right wing" -> "RightWing"
      [] OTHER -> "None"

\* the leagues the server lists for a nation
LeaguesOf(nat) ==
    CASE nat = "NLD" -> <<1>>
      [] nat = "BEL" -> <<2, 3>>
      [] OTHER -> <<>>

\* the players the server returns, after the filters, for a position
PlayersOf(position) ==
    CASE position = "LeftBack" -> <<11, 12>>
      [] position = "CentreForward" -> <<21>>
      [] OTHER -> <<>>

\* the default of the position parameter of find_recommended_players
PositionDefault == "LeftBack"

\* s[:n]
Take(s, n) == IF Len(s) > n THEN SubSeq(s, 1, n) ELSE s

\* set_league_selection(nations): the league ids are added to the ones held
SetLeagueSelection(league_ids, nations) ==
    league_ids
    \o ConcatAll(AsSeq([k \in 1..Len(nations) |-> LeaguesOf(nations[k])]))

\* find_recommended_players(position): the ids of the players found
FindRecommendedPlayers(position) == PlayersOf(position)

TaskKey(task) == task.position \o "_" \o task.level

LabelName(task) == "Virtual Director: " \o TaskKey(task)

\* dict.update({key: players})
UpdateLists(lists, key, players) ==
    IF \E k \in 1..Len(lists) : lists[k].key = key
    THEN AsSeq([k \in 1..Len(lists) |->
                    IF lists[k].key = key
                    THEN [key |-> key, players |-> players] ELSE lists[k]])
    ELSE Append(lists, [key |-> key, players |-> players])

\* scouting_lists.get(key), <<>> for None
GetList(lists, key) ==
    LET Keyed(l) == l.key = key
        hit == SelectIdx(lists, Keyed)
    IN  IF hit = <<>> THEN <<>> ELSE hit[1].players

\* _execute_task(task): find_recommended_players is called without position
ExecuteTask(league_ids, lists, task, nations) ==
    LET selection == SetLeagueSelection(league_ids, Take(nations, 10))
        recommendations == FindRecommendedPlayers(PositionDefault)
    IN  [league_ids |-> selection,
         position |-> PositionDefault,
         lists |-> IF recommendations # <<>>
                   THEN UpdateLists(lists, TaskKey(task), recommendations)
                   ELSE lists]

----------------------------------------------------------------------------
(* ScoutingPlanner : operations *)

TaskPositions == {"Left back", "Centre forward", "Goalkeeper"}

TaskLevels == {"starter", "backup"}

Tasks == {[position |-> ps, level |-> lv] : ps \in TaskPositions,
                                            lv \in TaskLevels}

NationLists == {<<"NLD">>, <<"NLD", "BEL">>}

Step(step, task, position, league_ids) ==
    [step |-> step, task |-> task, position |-> position,
     league_ids |-> league_ids]

InitScout == InitCollab

\* ScoutingPlanner.__init__ followed by the call of create_scouting_plan
NewScoutingPlanner ==
    /\ sp_pc = "none"
    /\ \E n \in 1..MaxTasks :
        \E tasks \in [1..n -> Tasks], nations \in NationLists :
            sp_input' = [tasks |-> AsSeq([k \in 1..n |->
                            [position |-> MapPositions(tasks[k].position),
                             level |-> tasks[k].level]]),
                         nations |-> nations]
    /\ sp_pc' = "execute"
    /\ sp_task' = 1
    /\ sp_lists' = <<>>
    /\ UNCHANGED <<team, now, sp_league_ids, sp_log>>
    /\ UNCHANGED pa_vars
    /\ UNCHANGED po_vars
    /\ UNCHANGED co_vars

\* create_scouting_plan: self._execute_task(task)
ScoutExecuteTask ==
    /\ sp_pc = "execute"
    /\ \E res \in {ExecuteTask(sp_league_ids, sp_lists,
                               sp_input.tasks[sp_task], sp_input.nations)} :
        /\ sp_league_ids' = res.league_ids
        /\ sp_lists' = res.lists
        /\ sp_log' = Append(sp_log, Step("search", sp_task, res.position,
                                         res.league_ids))
    /\ sp_pc' = "label"
    /\ UNCHANGED <<team, now, sp_input, sp_task>>
    /\ UNCHANGED pa_vars
    /\ UNCHANGED po_vars
    /\ UNCHANGED co_vars

\* create_scouting_plan: self._create_label(task)
ScoutCreateLabel ==
    /\ sp_pc = "label"
    /\ \E name \in {LabelName(sp_input.tasks[sp_task])} :
        \/ \E res \in {AddLabel(co_labels, co_next_id, name)} :
            /\ co_labels' = res.labels
            /\ co_sent' = res.sent
            /\ co_call' = Call("add_label", name, "", <<>>)
            /\ co_next_id' = co_next_id + 1
            /\ co_error' = NoError
            /\ sp_pc' = "assign"
        \/ \E res \in {AddLabelRefused(co_labels, name)} :
            /\ GetLabel(res.labels, name) # NoneId
            /\ co_labels' = res.labels
            /\ co_sent' = res.sent
            /\ co_call' = Call("add_label", name, "", <<>>)
            /\ co_next_id' = co_next_id
            /\ co_error' = res.error
            /\ sp_pc' = "failed"
    /\ sp_log' = Append(sp_log, Step("create_label", sp_task, "", <<>>))
    /\ UNCHANGED <<team, now, co_shortlists, sp_input, sp_task,
                   sp_league_ids, sp_lists>>
    /\ UNCHANGED pa_vars
    /\ UNCHANGED po_vars

\* create_scouting_plan: self._assign_labels(task), and on to the next task
ScoutAssignLabels ==
    /\ sp_pc = "assign"
    /\ LET task == sp_input.tasks[sp_task]
           players == GetList(sp_lists, TaskKey(task))
       IN  IF players # <<>>
           THEN \E res \in {PutPlayerLabels(co_labels, LabelName(task),
                                            players)} :
                    /\ co_sent' = res.sent
                    /\ co_error' = res.error
                    /\ co_call' = Call("put_player_labels", LabelName(task),
                                       "", players)
           ELSE UNCHANGED <<co_sent, co_error, co_call>>
    /\ sp_log' = Append(sp_log, Step("assign_label", sp_task, "", <<>>))
    /\ IF sp_task < Len(sp_input.tasks)
       THEN sp_pc' = "execute" /\ sp_task' = sp_task + 1
       ELSE sp_pc' = "done" /\ sp_task' = sp_task
    /\ UNCHANGED <<team, now, co_labels, co_shortlists, co_next_id, sp_input,
                   sp_league_ids, sp_lists>>
    /\ UNCHANGED pa_vars
    /\ UNCHANGED po_vars

NextScout ==
    \/ NewScoutingPlanner
    \/ ScoutExecuteTask
    \/ ScoutCreateLabel
    \/ ScoutAssignLabels

SpecScout == InitScout /\ [][NextScout]_vars

----------------------------------------------------------------------------
(* Properties of ScoutingPlanner *)

\* the log is search, create label, assign label for task 1, then for task 2
\* and so on
StepsInOrder ==
    \A k \in 1..Len(sp_log) :
        /\ sp_log[k].task = ((k - 1) \div 3) + 1
        /\ sp_log[k].step = CASE k % 3 = 1 -> "search"
                              [] k % 3 = 2 -> "create_label"
                              [] k % 3 = 0 -> "assign_label"

Searches == {k \in 1..Len(sp_log) : sp_log[k].step = "search"}

\* C30: in create_scouting_plan the steps of every task run in the order
\* search, create label, assign label; the search of a task is for the
\* position of that task, so the list stored under position_level holds only
\* players found for that position; and the league selection of the k-th
\* task is that of the first task
C30_ScoutingPlanPerTask ==
    /\ StepsInOrder
    /\ \A k \in Searches :
        /\ sp_log[k].position = sp_input.tasks[sp_log[k].task].position
        /\ sp_log[k].league_ids = sp_log[1].league_ids
    /\ \A l \in 1..Len(sp_lists) :
        \E t \in 1..Len(sp_input.tasks) :
            /\ sp_lists[l].key = TaskKey(sp_input.tasks[t])
            /\ sp_lists[l].players = PlayersOf(sp_input.tasks[t].position)

\* the part of it that holds: the order of the steps
C30_StepsInOrder == StepsInOrder

====
